---- MODULE Spec2Model ----
(***************************************************************************)
(* Procedural sprite sheets of isometric-city: the extension registry      *)
(* (proceduralSpriteExtensions.ts), the sheet generator                    *)
(* (proceduralSpriteSheets.ts) and the sprite sheet provider               *)
(* (spriteSheetProvider.ts).                                               *)
(*                                                                         *)
(* Representation.  A JavaScript string is a TLA+ string.  A 32-bit word   *)
(* is the pair <<hi, lo>> of its two 16-bit halves.  An optional value is  *)
(* None (absent, `undefined`) or Some(v).  A JavaScript Map, and an object *)
(* read with Object.entries, is the sequence of its <<key, value>> entries *)
(* in insertion order.  Style multipliers (1.15, 0.9, ...) are integers in *)
(* units of 1/10000.                                                       *)
(***************************************************************************)
EXTENDS Integers, Sequences, FiniteSets, TLC

Undef == "undefined"
None == <<>>
Some(v) == <<v>>
IsSome(o) == Len(o) = 1
Value(o) == o[1]

\* A faulty Max that returns its second argument: no floor under a tile size.
MaxIsSecond(a, b) == b

Max(a, b) == IF a >= b THEN a ELSE b

(***************************************************************************)
(* Strings                                                                 *)
(***************************************************************************)
Letters == "abcdefghijklmnopqrstuvwxyz"
Capitals == "ABCDEFGHIJKLMNOPQRSTUVWXYZ"
Digits == "0123456789"

charAt(s, i) == SubSeq(s, i, i)
IndexIn(s, c) == CHOOSE i \in 1..Len(s) : charAt(s, i) = c
Within(s, c) == \E i \in 1..Len(s) : charAt(s, i) = c

\* String.prototype.charCodeAt, for the characters the model's strings use.
charCodeAt(c) ==
  CASE Within(Letters, c) -> 96 + IndexIn(Letters, c)
    [] c = ":" -> 58
    [] c = "_" -> 95
    [] c = "-" -> 45
    [] c = "/" -> 47
    [] c = "." -> 46
    [] Within(Digits, c) -> 47 + IndexIn(Digits, c)
    [] OTHER -> 64 + IndexIn(Capitals, c)

\* String(n) / `${n}` for a non-negative integer n.
RECURSIVE NumToString(_)
NumToString(n) ==
  IF n < 10 THEN charAt(Digits, n + 1)
  ELSE NumToString(n \div 10) \o charAt(Digits, (n % 10) + 1)

\* String.prototype.indexOf(c): 0-based index of the first c, -1 if none.
indexOf(s, c) ==
  IF \E i \in 1..Len(s) : charAt(s, i) = c
  THEN (CHOOSE i \in 1..Len(s) :
          charAt(s, i) = c /\ \A j \in 1..(i - 1) : charAt(s, j) # c) - 1
  ELSE -1

\* String.prototype.startsWith(p) and String.prototype.includes(p).
startsWith(s, p) == Len(s) >= Len(p) /\ SubSeq(s, 1, Len(p)) = p
includes(s, p) ==
  \E i \in 1..(Len(s) - Len(p) + 1) : SubSeq(s, i, i + Len(p) - 1) = p

(***************************************************************************)
(* 32-bit arithmetic on <<hi, lo>> pairs                                   *)
(***************************************************************************)
W16 == 65536

RECURSIVE Xor16(_, _)
Xor16(a, b) ==
  IF a = 0 THEN b
  ELSE IF b = 0 THEN a
  ELSE (((a % 2) + (b % 2)) % 2) + 2 * Xor16(a \div 2, b \div 2)

RECURSIVE Or16(_, _)
Or16(a, b) ==
  IF a = 0 THEN b
  ELSE IF b = 0 THEN a
  ELSE (IF a % 2 = 1 \/ b % 2 = 1 THEN 1 ELSE 0) + 2 * Or16(a \div 2, b \div 2)

Xor32(a, b) == <<Xor16(a[1], b[1]), Xor16(a[2], b[2])>>
Or32(a, b) == <<Or16(a[1], b[1]), Or16(a[2], b[2])>>
Add32(a, b) ==
  <<(a[1] + b[1] + ((a[2] + b[2]) \div W16)) % W16, (a[2] + b[2]) % W16>>

Pow2(k) == CASE k = 7 -> 128 [] k = 9 -> 512 [] k = 14 -> 16384
             [] k = 15 -> 32768 [] k = 1 -> 2 [] k = 2 -> 4

\* a >>> k for 0 < k < 16.
Shr32(a, k) ==
  <<a[1] \div Pow2(k), ((a[1] % Pow2(k)) * Pow2(16 - k)) + (a[2] \div Pow2(k))>>

\* Low 16 bits of the product of two 16-bit numbers.
MulLo16(a, b) == (((a % 256) * b) + ((((a \div 256) * b) % 256) * 256)) % W16

\* High 16 bits of the (32-bit) product of two 16-bit numbers.
MulHi16(a, b) ==
  ((((a % 256) * b) + ((((a \div 256) * b) % 256) * 256)) \div W16)
    + (((a \div 256) * b) \div 256)

\* Math.imul(a, b): the low 32 bits of the product.
imul(a, b) ==
  <<(MulHi16(a[2], b[2]) + MulLo16(a[1], b[2]) + MulLo16(a[2], b[1])) % W16,
    MulLo16(a[2], b[2])>>

(***************************************************************************)
(* Deterministic RNG (mulberry32) and FNV-1a hash                          *)
(***************************************************************************)
FnvOffsetBasis == <<33052, 40389>>   \* 0x811c9dc5
FnvPrime == <<256, 403>>             \* 0x01000193
MulberryIncrement == <<27947, 31221>>  \* 0x6d2b79f5

RECURSIVE FnvFold(_, _, _)
FnvFold(h, s, i) ==
  IF h[1] >= 0 /\ i > Len(s) THEN h
  ELSE FnvFold(imul(Xor32(h, <<0, charCodeAt(charAt(s, i))>>), FnvPrime), s, i + 1)

\* hashStringToSeed: FNV-1a 32-bit over the characters of input.
hashStringToSeed(input) == FnvFold(FnvOffsetBasis, input, 1)

\* The value of the n-th call (n >= 1) of the generator mulberry32(seed)
\* returns, as the numerator of a fraction over 2^32.
mulberry32(seed, n) ==
  LET t == Add32(seed, imul(<<0, n>>, MulberryIncrement))   \* n times t += 0x6d2b79f5
      r1 == imul(Xor32(t, Shr32(t, 15)), Or32(<<0, 1>>, t))
      r2 == Xor32(r1, Add32(r1, imul(Xor32(r1, Shr32(r1, 7)), Or32(<<0, 61>>, r1))))
  IN Xor32(r2, Shr32(r2, 14))

(***************************************************************************)
(* Sprite styles                                                           *)
(***************************************************************************)
\* A decimal literal with two places, n/100, in units of 1/10000.
D(n) == n * 100

\* splitProceduralKey: the prefix is None when there is no ':' after the
\* first character.
splitProceduralKey(input) ==
  LET idx == indexOf(input, ":")
  IN IF idx <= 0 THEN [prefix |-> None, key |-> input]
     ELSE [prefix |-> Some(SubSeq(input, 1, idx)),
           key |-> SubSeq(input, idx + 2, Len(input))]

Style(kind, baseColor, fx, fy, height, roofColor, accentColor) ==
  [kind |-> kind, baseColor |-> baseColor, footprintX |-> fx, footprintY |-> fy,
   height |-> height, roofColor |-> roofColor, accentColor |-> accentColor]

DefaultStyle == Style("building", "#64748b", D(110), D(110), D(100), "#94a3b8", "#0f172a")

\* The if / else-if chain of styleForSpriteKey, on the un-prefixed key.
ClassifiedStyle(key) ==
  LET big == key = "mansion" \/ key = "mountain_lodge"
      med == key = "house_medium"
      isHigh == includes(key, "high")
      isLargeF == key = "factory_large"
      isMedF == key = "factory_medium"
      isLargeP == includes(key, "large") \/ includes(key, "stadium")
                    \/ includes(key, "mountain_trailhead")
  IN
  IF includes(key, "house") \/ key = "mansion" \/ includes(key, "cabin") \/ includes(key, "lodge")
    THEN Style("building", "#60a5fa",
               IF big THEN D(170) ELSE IF med THEN D(130) ELSE D(115),
               IF big THEN D(160) ELSE IF med THEN D(125) ELSE D(110),
               IF big THEN D(135) ELSE IF med THEN D(110) ELSE D(90),
               "#1d4ed8", "#0b1220")
  ELSE IF key = "residential"
    THEN Style("building", "#3b82f6", D(155), D(145), D(210), "#1e3a8a", "#0b1220")
  ELSE IF includes(key, "apartment")
    THEN Style("building", IF isHigh THEN "#38bdf8" ELSE "#60a5fa",
               IF isHigh THEN D(195) ELSE D(175), IF isHigh THEN D(180) ELSE D(165),
               IF isHigh THEN D(290) ELSE D(230),
               IF isHigh THEN "#0369a1" ELSE "#1d4ed8", "#0b1220")
  ELSE IF includes(key, "office")
    THEN Style("building", IF isHigh THEN "#fbbf24" ELSE "#f59e0b", D(190), D(175),
               IF isHigh THEN D(275) ELSE D(225), "#92400e", "#111827")
  ELSE IF includes(key, "shop")
    THEN Style("building", "#fbbf24", IF key = "shop_medium" THEN D(140) ELSE D(120), D(120),
               IF key = "shop_medium" THEN D(120) ELSE D(100), "#b45309", "#111827")
  ELSE IF key = "commercial" \/ key = "mall"
    THEN Style("building", "#f59e0b", IF key = "mall" THEN D(210) ELSE D(170),
               IF key = "mall" THEN D(190) ELSE D(160),
               IF key = "mall" THEN D(280) ELSE D(240), "#92400e", "#111827")
  ELSE IF includes(key, "factory") \/ key = "warehouse"
    THEN Style("building", "#9ca3af",
               IF isLargeF THEN D(200) ELSE IF isMedF THEN D(160) ELSE D(135),
               IF isLargeF THEN D(180) ELSE IF isMedF THEN D(150) ELSE D(125),
               IF isLargeF THEN D(160) ELSE IF isMedF THEN D(130) ELSE D(110),
               "#6b7280", "#111827")
  ELSE IF key = "industrial"
    THEN Style("building", "#94a3b8", D(180), D(170), D(190), "#475569", "#0f172a")
  ELSE IF includes(key, "police")
    THEN Style("building", "#a5b4fc", D(145), D(135), D(135), "#4338ca", "#111827")
  ELSE IF includes(key, "fire_station")
    THEN Style("building", "#fb7185", D(155), D(140), D(140), "#be123c", "#111827")
  ELSE IF includes(key, "hospital")
    THEN Style("building", "#f1f5f9", D(170), D(155), D(180), "#94a3b8", "#ef4444")
  ELSE IF includes(key, "school")
    THEN Style("building", "#fde68a", D(155), D(145), D(135), "#b45309", "#111827")
  ELSE IF includes(key, "university")
    THEN Style("building", "#c4b5fd", D(175), D(165), D(165), "#6d28d9", "#111827")
  ELSE IF key = "tree"
    THEN Style("tree", "#16a34a", D(105), D(105), D(135), "#14532d", "#78350f")
  ELSE IF startsWith(key, "park") \/ includes(key, "garden") \/ includes(key, "playground")
          \/ includes(key, "camp") \/ includes(key, "trail") \/ includes(key, "pond")
          \/ includes(key, "court") \/ includes(key, "field") \/ includes(key, "pool")
          \/ includes(key, "skate") \/ includes(key, "go_kart")
          \/ includes(key, "roller_coaster") \/ includes(key, "marina") \/ includes(key, "pier")
    THEN Style("park",
               IF includes(key, "pool") \/ includes(key, "pond") THEN "#3b82f6" ELSE "#22c55e",
               IF isLargeP THEN D(190) ELSE D(145), IF isLargeP THEN D(175) ELSE D(135),
               D(45), "#166534", "#f8fafc")
  ELSE IF key = "power_plant"
    THEN Style("utility", "#a3a3a3", D(200), D(170), D(180), "#525252", "#f59e0b")
  ELSE IF key = "water_tower"
    THEN Style("utility", "#93c5fd", D(120), D(120), D(200), "#1d4ed8", "#0f172a")
  ELSE IF key = "subway_station" \/ key = "rail_station"
    THEN Style("utility", "#cbd5e1", D(160), D(150), D(95), "#64748b", "#0f172a")
  ELSE IF key = "stadium" \/ includes(key, "stadium")
    THEN Style("special", "#e5e7eb", D(220), D(200), D(100), "#9ca3af", "#0f172a")
  ELSE IF key = "museum" \/ includes(key, "amphitheater")
    THEN Style("special", "#fef3c7", D(185), D(165), D(135), "#b45309", "#0f172a")
  ELSE IF key = "airport"
    THEN Style("special", "#e2e8f0", D(240), D(210), D(85), "#64748b", "#0f172a")
  ELSE IF key = "space_program"
    THEN Style("special", "#d1d5db", D(200), D(180), D(220), "#4b5563", "#22d3ee")
  ELSE IF key = "city_hall" \/ includes(key, "park_gate")
    THEN Style("special", "#e0e7ff", D(190), D(170), D(170), "#4338ca", "#111827")
  ELSE IF key = "amusement_park" \/ includes(key, "roller_coaster") \/ includes(key, "go_kart")
    THEN Style("special", "#fca5a5", D(210), D(190), D(140), "#be123c", "#fbbf24")
  ELSE DefaultStyle

WaterStyle == Style("park", "#3b82f6", D(190), D(180), D(25), "#1d4ed8", "#93c5fd")

\* The prefix modifiers (dense / modern / farm / station).
PrefixModifier(prefix, style) ==
  IF prefix = Some("dense")
    THEN [style EXCEPT !.height = (style.height * 125) \div 100,
                       !.footprintX = (style.footprintX * 105) \div 100,
                       !.footprintY = (style.footprintY * 105) \div 100]
  ELSE IF prefix = Some("modern")
    THEN [style EXCEPT !.baseColor = "#94a3b8", !.roofColor = "#334155",
                       !.accentColor = "#0f172a",
                       !.height = (style.height * 115) \div 100]
  ELSE IF prefix = Some("farm")
    THEN [style EXCEPT !.baseColor = "#a3e635", !.roofColor = "#4d7c0f",
                       !.accentColor = "#78350f"]
  ELSE IF prefix = Some("station")
    THEN [style EXCEPT !.kind = "utility", !.baseColor = "#cbd5e1",
                       !.roofColor = "#64748b", !.accentColor = "#0f172a"]
  ELSE style

\* A faulty styleForSpriteKey that classifies the whole sprite key, prefix
\* and colon included.
styleForWholeKey(spriteKey) ==
  LET split == splitProceduralKey(spriteKey)
      style == IF spriteKey = "water" THEN WaterStyle ELSE ClassifiedStyle(spriteKey)
  IN PrefixModifier(split.prefix, style)

\* A faulty styleForSpriteKey without the `water` override.
styleWithoutWaterRule(spriteKey) ==
  LET split == splitProceduralKey(spriteKey)
  IN PrefixModifier(split.prefix, ClassifiedStyle(split.key))

styleForSpriteKey(spriteKey) ==
  LET split == splitProceduralKey(spriteKey)
      classified == ClassifiedStyle(split.key)
      style == IF split.key = "water" THEN WaterStyle ELSE classified
  IN PrefixModifier(split.prefix, style)

(***************************************************************************)
(* State                                                                   *)
(***************************************************************************)
VARIABLES
  prefixRenderers,          \* Map<prefix, renderer>, global
  spriteKeyRenderers,       \* Map<spriteKey, renderer>, global
  prefixRenderersByPack,    \* Map<packId, Map<prefix, renderer>>
  spriteKeyRenderersByPack, \* Map<packId, Map<spriteKey, renderer>>
  imageCache,               \* the image loader's cache: Map<<<src, filtered>>, image>
  registered,               \* history: per table and key, the renderer last registered
  runs,                     \* history: the generator runs kept for comparison
  call,                     \* the last API call and what it returned
  localStorage,             \* window.localStorage item 'isocity-procedural-assets-mode'
  platform,                 \* window, storage access, the build-time variables
  mode,                     \* the last asset-mode call and what it returned
  SPRITE_PACKS              \* the pack list of renderConfig, an array

registry == <<prefixRenderers, spriteKeyRenderers, prefixRenderersByPack,
              spriteKeyRenderersByPack>>
assets == <<localStorage, platform, mode>>
vars == <<prefixRenderers, spriteKeyRenderers, prefixRenderersByPack,
          spriteKeyRenderersByPack, imageCache, registered, runs, call,
          localStorage, platform, mode, SPRITE_PACKS>>

(***************************************************************************)
(* Map                                                                     *)
(***************************************************************************)
MapHas(m, k) == \E i \in 1..Len(m) : m[i][1] = k
MapIndex(m, k) == CHOOSE i \in 1..Len(m) : m[i][1] = k
\* Map.prototype.set: an existing key keeps its place, a new key is appended.
MapSet(m, k, v) ==
  IF MapHas(m, k) THEN [m EXCEPT ![MapIndex(m, k)] = <<k, v>>]
  ELSE Append(m, <<k, v>>)
\* Map.prototype.delete.
MapDelete(m, k) ==
  IF MapHas(m, k)
  THEN SubSeq(m, 1, MapIndex(m, k) - 1) \o SubSeq(m, MapIndex(m, k) + 1, Len(m))
  ELSE m
\* Array.from(m.keys()).
MapKeys(m) == [i \in 1..Len(m) |-> m[i][1]]
\* Map.prototype.get of a Map of renderers: the renderer or undefined.
MapGet(m, k) == IF MapHas(m, k) THEN m[MapIndex(m, k)][2] ELSE Undef
\* Map.prototype.get of a Map of Maps, as an optional Map.
MapGetMap(root, k) == IF MapHas(root, k) THEN Some(root[MapIndex(root, k)][2]) ELSE None

\* getPackMap: the pack's Map, created empty in root when missing.
getPackMapRoot(root, packId) ==
  IF MapHas(root, packId) THEN root ELSE Append(root, <<packId, <<>>>>)

(***************************************************************************)
(* Extension registry lookups                                              *)
(***************************************************************************)
\* packMap?.get(key) for an optional pack Map.
ScopedGet(root, packId, k) ==
  IF IsSome(MapGetMap(root, packId)) THEN MapGet(Value(MapGetMap(root, packId)), k)
  ELSE Undef

\* getProceduralPrefixRenderer(prefix, packId?): packId is optional.
getProceduralPrefixRenderer(prefix, packId) ==
  IF IsSome(packId) /\ Value(packId) # ""
       /\ ScopedGet(prefixRenderersByPack, Value(packId), prefix) # Undef
  THEN ScopedGet(prefixRenderersByPack, Value(packId), prefix)
  ELSE MapGet(prefixRenderers, prefix)

\* getProceduralSpriteRenderer(spriteKey, packId?).
getProceduralSpriteRenderer(spriteKey, packId) ==
  IF IsSome(packId) /\ Value(packId) # ""
       /\ ScopedGet(spriteKeyRenderersByPack, Value(packId), spriteKey) # Undef
  THEN ScopedGet(spriteKeyRenderersByPack, Value(packId), spriteKey)
  ELSE MapGet(spriteKeyRenderers, spriteKey)

listProceduralPrefixRenderers == MapKeys(prefixRenderers)
listProceduralSpriteRenderers == MapKeys(spriteKeyRenderers)
listProceduralPrefixRenderersForPack(packId) ==
  IF IsSome(MapGetMap(prefixRenderersByPack, packId))
  THEN MapKeys(Value(MapGetMap(prefixRenderersByPack, packId))) ELSE <<>>
listProceduralSpriteRenderersForPack(packId) ==
  IF IsSome(MapGetMap(spriteKeyRenderersByPack, packId))
  THEN MapKeys(Value(MapGetMap(spriteKeyRenderersByPack, packId))) ELSE <<>>

(***************************************************************************)
(* Renderers an application registers.  A renderer is named; what it does  *)
(* when it is called is RendererBehaviour: the value it returns, how many  *)
(* values it takes from the cell RNG, and whether it draws into the cell.  *)
(***************************************************************************)
PaintRenderer == "paint"       \* draws the sprite with one RNG value, returns true
DeclineRenderer == "decline"   \* () => false
PickyRenderer == "picky"       \* takes one RNG value, draws a mark, returns nothing
Renderers == {PaintRenderer, DeclineRenderer, PickyRenderer}

RendererBehaviour(r) ==
  CASE r = PaintRenderer -> [ret |-> "true", rngCalls |-> 1, draws |-> TRUE]
    [] r = DeclineRenderer -> [ret |-> "false", rngCalls |-> 0, draws |-> FALSE]
    [] r = PickyRenderer -> [ret |-> Undef, rngCalls |-> 1, draws |-> TRUE]

(***************************************************************************)
(* Drawing.  A cell's trace is the sequence of drawing calls made on the   *)
(* 2D context while the cell is generated; each records the cell rectangle *)
(* it was given and the RNG values it took.                                *)
(***************************************************************************)
Op(fn, x, y, w, h, detail, rng) ==
  [fn |-> fn, x |-> x, y |-> y, w |-> w, h |-> h, detail |-> detail, rng |-> rng]

\* The values of calls n+1 .. n+k of the generator seeded with seed.
RngValues(seed, n, k) == [i \in 1..k |-> mulberry32(seed, n + i)]

\* rng() < 0.5, for floor(1 + rng() * 2).
BelowHalf(v) == v[1] < 32768

\* drawPark: one value for the number of trees, then per tree two values
\* for its place and one in drawTree.
ParkTrees(seed, n) == IF BelowHalf(mulberry32(seed, n + 1)) THEN 1 ELSE 2

drawPark(x, y, w, h, seed, n) ==
  <<Op("drawPark", x, y, w, h, "", RngValues(seed, n, 1))>>
    \o [i \in 1..ParkTrees(seed, n) |->
          Op("drawTree", x, y, w, h, "translated", RngValues(seed, n + 1 + 3 * (i - 1), 3))]

\* The park sub-renderer chosen by the base key.
ParkOps(key, x, y, w, h, seed, n) ==
  IF key = "tennis" \/ includes(key, "tennis")
    THEN <<Op("drawTennisCourt", x, y, w, h, "", <<>>)>>
  ELSE IF includes(key, "basketball")
    THEN <<Op("drawSportsField", x, y, w, h, "basketball", <<>>)>>
  ELSE IF includes(key, "soccer")
    THEN <<Op("drawSportsField", x, y, w, h, "soccer", <<>>)>>
  ELSE IF includes(key, "football")
    THEN <<Op("drawSportsField", x, y, w, h, "football", <<>>)>>
  ELSE IF includes(key, "baseball")
    THEN <<Op("drawSportsField", x, y, w, h, "baseball", <<>>)>>
  ELSE IF includes(key, "pool")
    THEN <<Op("drawPool", x, y, w, h, "", <<>>)>>
  ELSE IF includes(key, "go_kart") \/ includes(key, "roller_coaster")
    THEN <<Op("drawTrack", x, y, w, h, "", <<>>)>>
  ELSE IF includes(key, "marina") \/ includes(key, "pier")
    THEN <<Op("drawPier", x, y, w, h, "", <<>>)>>
  ELSE drawPark(x, y, w, h, seed, n)

\* drawWindows on one face of the prism.  Both faces drawIsoPrism returns
\* have a bounding box 0.13*w*footprintY wide and
\* 0.065*w*footprintY + 0.18*h*height high; a face under 12 px is skipped,
\* else one RNG value is taken per window of the cols x rows grid.
FaceW(w, style) == 13 * w * style.footprintY             \* in 1/1000000 px
FaceH(w, h, style) == 65 * w * style.footprintY + 180 * h * style.height  \* 1/10000000 px
WindowCount(w, h, style) ==
  IF FaceW(w, style) < 12 * 1000000 \/ FaceH(w, h, style) < 12 * 10000000 THEN 0
  ELSE Max(2, FaceW(w, style) \div (16 * 1000000))
         * Max(2, FaceH(w, h, style) \div (18 * 10000000))

drawWindows(face, x, y, w, h, style, seed, n) ==
  IF WindowCount(w, h, style) = 0 THEN <<>>
  ELSE <<Op("drawWindows", x, y, w, h, face, RngValues(seed, n, WindowCount(w, h, style)))>>

\* drawUtilityExtras: the water tower cap takes one value, the power plant
\* smoke six.
UtilityRngCalls(key) ==
  IF key = "water_tower" THEN 1 ELSE IF key = "power_plant" THEN 6 ELSE 0

drawUtilityExtras(key, x, y, w, h, seed, n) ==
  <<Op("drawUtilityExtras", x, y, w, h, key, RngValues(seed, n, UtilityRngCalls(key)))>>

\* The variant overlays at the end of drawProceduralSpriteTile; the
\* abandoned overlay takes four values for each of its six streaks.
VariantOverlay(variant, x, y, w, h, seed, n) ==
  IF variant = "construction" THEN <<Op("drawConstructionOverlay", x, y, w, h, "", <<>>)>>
  ELSE IF variant = "abandoned"
    THEN <<Op("drawAbandonedOverlay", x, y, w, h, "", RngValues(seed, n, 24))>>
  ELSE <<>>

\* The isometric prism path: prism, windows, accent sign, utility extras,
\* variant overlay.
PrismOps(split, style, variant, x, y, w, h, seed, n) ==
  LET windows == IF style.height >= 12000
                 THEN drawWindows("right", x, y, w, h, style, seed, n)
                        \o drawWindows("left", x, y, w, h, style, seed,
                                       n + WindowCount(w, h, style))
                 ELSE <<>>
      n1 == n + (IF style.height >= 12000 THEN 2 * WindowCount(w, h, style) ELSE 0)
      hasExtras == style.kind = "utility" \/ split.key = "power_plant"
                     \/ split.key = "water_tower" \/ split.prefix = Some("station")
      extras == IF hasExtras THEN drawUtilityExtras(split.key, x, y, w, h, seed, n1) ELSE <<>>
      n2 == n1 + (IF hasExtras THEN UtilityRngCalls(split.key) ELSE 0)
  IN <<Op("drawIsoPrism", x, y, w, h, variant, <<>>)>>
       \o windows
       \o <<Op("accentSign", x, y, w, h, style.accentColor, <<>>)>>
       \o extras
       \o VariantOverlay(variant, x, y, w, h, seed, n2)

\* The built-in path of drawProceduralSpriteTile, from styleForSpriteKey on,
\* with n values already taken from the cell RNG.
BuiltinOps(spriteKey, variant, x, y, w, h, seed, n) ==
  LET shadow == Op("shadow", x, y, w, h, "", <<>>)
      Draw(split, style) ==
        IF style.kind = "tree"
          THEN <<shadow, Op("drawTree", x, y, w, h, "", RngValues(seed, n, 1))>>
        ELSE IF style.kind = "park"
          THEN <<shadow>> \o ParkOps(split.key, x, y, w, h, seed, n)
        ELSE <<shadow>> \o PrismOps(split, style, variant, x, y, w, h, seed, n)
  IN CHOOSE ops \in {Draw(split, style) : split \in {splitProceduralKey(spriteKey)},
                                          style \in {styleForSpriteKey(spriteKey)}} : TRUE

\* The extension point of drawProceduralSpriteTile: the renderer the cell
\* is offered to, or undefined.
ExtensionFor(spriteKey) ==
  LET split == splitProceduralKey(spriteKey)
  IN IF IsSome(split.prefix) /\ Value(split.prefix) # ""
     THEN getProceduralPrefixRenderer(Value(split.prefix), None)
     ELSE Undef

\* What the call of renderer ext adds to the trace.
RendererOps(ext, x, y, w, h, seed) ==
  <<Op(IF RendererBehaviour(ext).draws THEN "renderer:draw" ELSE "renderer:call",
       x, y, w, h, ext, RngValues(seed, 0, RendererBehaviour(ext).rngCalls))>>

\* The argument object the renderer is called with: the properties of the
\* object literal at the call site, rng by the seed of the cell's generator;
\* pack and sheetKind are not among them and read as undefined.
RenderArgs(spriteKey, variant, x, y, w, h, seed) ==
  [pack |-> None, sheetKind |-> None,
   spriteKey |-> spriteKey,
   prefix |-> Value(splitProceduralKey(spriteKey).prefix),
   key |-> splitProceduralKey(spriteKey).key,
   variant |-> variant, x |-> x, y |-> y, w |-> w, h |-> h, rng |-> seed]

\* A faulty Handled, `handled !== false`: a renderer that returns nothing
\* would count as having drawn the cell.
HandledUnlessFalse(ext) == ext # Undef /\ RendererBehaviour(ext).ret # "false"

\* Whether the cell stops after the renderer: `handled === true`.
Handled(ext) == ext # Undef /\ RendererBehaviour(ext).ret = "true"

\* drawProceduralSpriteTile: the lookups whose renderer the cell was offered
\* to, who drew it, and its trace.
drawProceduralSpriteTile(spriteKey, variant, x, y, w, h, seed) ==
  LET clear == <<Op("clearRect", x, y, w, h, "", <<>>)>>
      Tile(ext) ==
        [offered |-> IF ext = Undef THEN <<>>
                     ELSE <<[table |-> "prefix", packId |-> None, renderer |-> ext]>>,
         args |-> IF ext = Undef THEN <<>>
                  ELSE <<RenderArgs(spriteKey, variant, x, y, w, h, seed)>>,
         handledBy |-> IF Handled(ext) THEN ext ELSE "builtin",
         trace |-> clear
                     \o (IF ext = Undef THEN <<>> ELSE RendererOps(ext, x, y, w, h, seed))
                     \o (IF Handled(ext) THEN <<>>
                         ELSE BuiltinOps(spriteKey, variant, x, y, w, h, seed,
                                         IF ext = Undef THEN 0
                                         ELSE RendererBehaviour(ext).rngCalls))]
  IN CHOOSE tile \in {Tile(ext) : ext \in {ExtensionFor(spriteKey)}} : TRUE

(***************************************************************************)
(* Sprite packs                                                            *)
(***************************************************************************)
Kinds == {"main", "construction", "abandoned", "dense", "modern", "parks",
          "parksConstruction", "farms", "shops", "stations"}
GridKinds == {"main", "construction", "abandoned"}
CellMapKinds == Kinds \ GridKinds

\* A SpritePack with every optional field absent.
EmptyPack ==
  [id |-> "", cols |-> 1, rows |-> 1, layout |-> "row", spriteOrder |-> <<>>,
   procedural |-> None,
   denseVariants |-> None, modernVariants |-> None, parksBuildings |-> None,
   farmsVariants |-> None, shopsVariants |-> None, stationsVariants |-> None,
   parksCols |-> None, parksRows |-> None, farmsCols |-> None, farmsRows |-> None,
   shopsCols |-> None, shopsRows |-> None, stationsCols |-> None, stationsRows |-> None,
   src |-> None, constructionSrc |-> None, abandonedSrc |-> None, denseSrc |-> None,
   modernSrc |-> None, parksSrc |-> None, parksConstructionSrc |-> None,
   farmsSrc |-> None, shopsSrc |-> None, stationsSrc |-> None]

Pos(col, row) == [col |-> col, row |-> row]

\* The default descriptor of getProceduralConfig.
DefaultProceduralConfig == [tileWidth |-> 256, tileHeight |-> 213, seed |-> Some(0)]

\* A pack as registerProceduralUserAssets derives it: a procedural
\* descriptor, a 2x2 row-major main grid, a farms cell map with two cells of
\* one type, no other cell map; the sources of the kinds the base pack had
\* no map for stay image files.
PackUser ==
  [EmptyPack EXCEPT
     !.id = "procedural-user", !.cols = 2, !.rows = 2, !.layout = "row",
     !.spriteOrder = <<"tree", "house_small", "farm:silo", "water">>,
     !.procedural = Some([tileWidth |-> 32, tileHeight |-> 32, seed |-> Some(20251227)]),
     !.farmsVariants = Some(<< <<"water_tower", <<Pos(0, 0), Pos(1, 0)>>>> >>),
     !.farmsCols = Some(2), !.farmsRows = Some(1),
     !.src = Some("procedural:procedural-user:main"),
     !.constructionSrc = Some("procedural:procedural-user:construction"),
     !.abandonedSrc = Some("procedural:procedural-user:abandoned"),
     !.denseSrc = Some("/assets/dense.webp"),
     !.farmsSrc = Some("procedural:procedural-user:farms"),
     !.stationsSrc = Some("/assets/stations.webp")]

\* A second procedural pack: column-major, a parks cell map, seed omitted.
PackBasic ==
  [EmptyPack EXCEPT
     !.id = "procedural-basic", !.cols = 1, !.rows = 2, !.layout = "column",
     !.spriteOrder = <<"house_small", "farm:silo">>,
     !.procedural = Some([tileWidth |-> 16, tileHeight |-> 16, seed |-> None]),
     !.parksBuildings = Some(<< <<"basketball_courts", Pos(0, 0)>>, <<"pond_park", Pos(0, 1)>> >>),
     !.farmsVariants = Some(<< <<"silo", <<Pos(0, 1)>>>> >>),
     !.src = Some("procedural:procedural-basic:main"),
     !.constructionSrc = Some("procedural:procedural-basic:construction"),
     !.abandonedSrc = Some("procedural:procedural-basic:abandoned"),
     !.parksSrc = Some("procedural:procedural-basic:parks"),
     !.parksConstructionSrc = Some("procedural:procedural-basic:parksConstruction"),
     !.farmsSrc = Some("procedural:procedural-basic:farms")]

\* A pack that forgot pack.procedural: its sources are cache keys.
PackTagged ==
  [EmptyPack EXCEPT
     !.id = "tagged", !.cols = 1, !.rows = 1,
     !.spriteOrder = <<"tree">>,
     !.stationsVariants = Some(<< <<"rail", <<Pos(0, 0)>>>> >>),
     !.src = Some("procedural:tagged:main"),
     !.constructionSrc = Some("procedural:tagged:construction"),
     !.abandonedSrc = Some("procedural:tagged:abandoned"),
     !.denseSrc = Some("procedural:tagged:dense"),
     !.modernSrc = Some("procedural:tagged:modern"),
     !.parksSrc = Some("procedural:tagged:parks"),
     !.parksConstructionSrc = Some("procedural:tagged:parksConstruction"),
     !.farmsSrc = Some("procedural:tagged:farms"),
     !.shopsSrc = Some("procedural:tagged:shops"),
     !.stationsSrc = Some("procedural:tagged:stations")]

\* The same pack carrying the default descriptor.
PackTaggedDefault == [PackTagged EXCEPT !.procedural = Some(DefaultProceduralConfig)]

\* A file-backed pack: no descriptor, image files as sources.
PackFile ==
  [EmptyPack EXCEPT
     !.id = "sprites4", !.cols = 2, !.rows = 1,
     !.spriteOrder = <<"house_small", "tree">>,
     !.denseVariants = Some(<< <<"apartment_low", <<Pos(1, 0)>>>> >>),
     !.src = Some("/assets/sprites4.webp"),
     !.constructionSrc = Some("/assets/construction.webp"),
     !.denseSrc = Some("/assets/dense.webp")]

\* A column-major pack with more keys than cells, tiles under the 16 px
\* floor, a shops cell map with positions off its grid, and a power plant
\* in the second row of its stations sheet.
PackColumn ==
  [EmptyPack EXCEPT
     !.id = "procedural-column", !.cols = 2, !.rows = 2, !.layout = "column",
     !.spriteOrder = <<"tree", "house_small", "water", "farm:silo", "hospital">>,
     !.procedural = Some([tileWidth |-> 8, tileHeight |-> 12, seed |-> Some(3)]),
     !.shopsVariants = Some(<< <<"kiosk", <<Pos(1, 1), Pos(2, 0), Pos(0, -1)>>>> >>),
     !.shopsCols = Some(2),
     !.stationsVariants = Some(<< <<"power_plant", <<Pos(0, 1)>>>> >>),
     !.stationsSrc = Some("procedural:procedural-column:stations"),
     !.src = Some("procedural:procedural-column:main"),
     !.constructionSrc = Some("procedural:procedural-column:construction"),
     !.abandonedSrc = Some("procedural:procedural-column:abandoned"),
     !.shopsSrc = Some("procedural:procedural-column:shops")]

\* A file-backed pack with a parks image and no parks cell map.
PackFileParks == [PackFile EXCEPT !.id = "sprites4-parks", !.parksSrc = Some("/assets/parks.webp")]

Packs == {PackUser, PackBasic, PackTagged, PackTaggedDefault, PackFile, PackColumn}
PackIds == {"procedural-user"}

(***************************************************************************)
(* Sheet generation                                                        *)
(***************************************************************************)
\* The drawing environment: a browser, no `document`, or a canvas whose
\* getContext('2d') yields null.
Envs == {"browser", "noDocument", "noContext"}

\* What a generator call comes to: the sheet it returns, null, or the error
\* it throws; surfaces counts the canvases it created on the way.
NoSheet == [width |-> 0, height |-> 0, hasContext |-> FALSE, cells |-> <<>>]
Returned(sheet) == [outcome |-> "sheet", error |-> "", surfaces |-> 1, sheet |-> sheet]
ReturnedNull == [outcome |-> "null", error |-> "", surfaces |-> 0, sheet |-> NoSheet]
Thrown(error) == [outcome |-> "throw", error |-> error, surfaces |-> 0, sheet |-> NoSheet]
NotCalled == [outcome |-> "notCalled", error |-> "", surfaces |-> 0, sheet |-> NoSheet]

isProceduralSpritePack(pack) == IsSome(pack.procedural)

getProceduralConfig(pack) ==
  IF IsSome(pack.procedural) THEN Value(pack.procedural) ELSE DefaultProceduralConfig

\* One generated cell: where it is, the string its RNG seed is hashed from,
\* and what drawProceduralSpriteTile did.
Cell(col, row, spriteKey, variant, salt, seedString, tileW, tileH) ==
  CHOOSE cell \in
    {[col |-> col, row |-> row, spriteKey |-> spriteKey, variant |-> variant,
      salt |-> salt, seedString |-> seedString, rngSeed |-> seed,
      tile |-> drawProceduralSpriteTile(spriteKey, variant, col * tileW, row * tileH,
                                        tileW, tileH, seed)]
       : seed \in {hashStringToSeed(seedString)}} : TRUE

\* A faulty GridSeedString that puts the sheet kind into the string, as the
\* cell-map path does.
GridSeedStringWithKind(seed, pack, variant, spriteKey) ==
  NumToString(seed) \o ":" \o pack.id \o ":" \o variant \o ":" \o variant \o ":" \o spriteKey

\* The string hashed for a cell of the ordered-grid path.
GridSeedString(seed, pack, variant, spriteKey) ==
  NumToString(seed) \o ":" \o pack.id \o ":" \o variant \o ":" \o spriteKey

\* A faulty GridCol that takes every pack for row-major.
GridColRowMajor(pack, index) == index % pack.cols

\* (col, row) of index (0-based) in the ordered grid.
GridCol(pack, index) ==
  IF pack.layout = "column" THEN index \div pack.rows ELSE index % pack.cols
GridRow(pack, index) ==
  IF pack.layout = "column" THEN index % pack.rows ELSE index \div pack.cols

\* A faulty InRange that forgets the lower bounds.
InRangeUpperOnly(col, row, cols, rows) == col < cols /\ row < rows

InRange(col, row, cols, rows) == ~(col < 0 \/ col >= cols \/ row < 0 \/ row >= rows)

RECURSIVE GridCells(_, _, _, _, _, _)
GridCells(pack, variant, seed, tileW, tileH, index) ==
  IF index >= Len(pack.spriteOrder) THEN <<>>
  ELSE (IF InRange(GridCol(pack, index), GridRow(pack, index), pack.cols, pack.rows)
        THEN <<Cell(GridCol(pack, index), GridRow(pack, index),
                    pack.spriteOrder[index + 1], variant, None,
                    GridSeedString(seed, pack, variant, pack.spriteOrder[index + 1]),
                    tileW, tileH)>>
        ELSE <<>>)
       \o GridCells(pack, variant, seed, tileW, tileH, index + 1)

NoDocumentError == "Procedural sprite generation requires a browser (document is undefined)."
NotProceduralError(pack) ==
  "Sprite pack " \o pack.id \o " is not configured for procedural generation."

\* What a generator returns once its canvas exists: the canvas as it is
\* when getContext yields null, the drawn sheet otherwise.
Canvas(env, width, height, cells) ==
  IF env = "noContext"
  THEN Returned([width |-> width, height |-> height, hasContext |-> FALSE, cells |-> <<>>])
  ELSE Returned([width |-> width, height |-> height, hasContext |-> TRUE, cells |-> cells])

generateFromSpriteOrder(pack, variant, procedural, env) ==
  LET tileW == Max(16, procedural.tileWidth)
      tileH == Max(16, procedural.tileHeight)
      seed == IF IsSome(procedural.seed) THEN Value(procedural.seed) ELSE 0
  IN IF env = "noDocument" THEN Thrown(NoDocumentError)
     ELSE Canvas(env, tileW * pack.cols, tileH * pack.rows,
                 IF env = "noContext" THEN <<>>
                 ELSE GridCells(pack, variant, seed, tileW, tileH, 0))

generateProceduralSpriteSheet(pack, variant, env) ==
  IF ~isProceduralSpritePack(pack) THEN Thrown(NotProceduralError(pack))
  ELSE generateFromSpriteOrder(pack, variant, getProceduralConfig(pack), env)

\* A faulty CellSeedString that mixes the number of runs made so far into
\* the string, as a generator keeping a counter between runs would.
CellSeedStringPerRun(seed, pack, kind, variant, cell) ==
  NumToString(seed) \o ":" \o pack.id \o ":" \o kind \o ":" \o variant \o ":"
    \o cell.spriteKey \o ":" \o NumToString(Len(runs))

\* The string hashed for a cell of the cell-map path; salt is optional.
CellSeedString(seed, pack, kind, variant, cell) ==
  NumToString(seed) \o ":" \o pack.id \o ":" \o kind \o ":" \o variant \o ":"
    \o cell.spriteKey
    \o (IF IsSome(cell.salt) /\ Value(cell.salt) # "" THEN ":" \o Value(cell.salt) ELSE "")

RECURSIVE MapCells(_, _, _, _, _, _, _, _, _, _)
MapCells(pack, kind, cols, rows, variant, seed, tileW, tileH, cells, i) ==
  IF i > Len(cells) THEN <<>>
  ELSE (IF InRange(cells[i].col, cells[i].row, cols, rows)
        THEN <<Cell(cells[i].col, cells[i].row, cells[i].spriteKey, variant, cells[i].salt,
                    CellSeedString(seed, pack, kind, variant, cells[i]), tileW, tileH)>>
        ELSE <<>>)
       \o MapCells(pack, kind, cols, rows, variant, seed, tileW, tileH, cells, i + 1)

generateFromCells(pack, kind, cols, rows, variant, cells, env) ==
  LET procedural == getProceduralConfig(pack)
      tileW == Max(16, procedural.tileWidth)
      tileH == Max(16, procedural.tileHeight)
      seed == IF IsSome(procedural.seed) THEN Value(procedural.seed) ELSE 0
  IN IF env = "noDocument" THEN Thrown(NoDocumentError)
     ELSE Canvas(env, tileW * cols, tileH * rows,
                 IF env = "noContext" THEN <<>>
                 ELSE MapCells(pack, kind, cols, rows, variant, seed, tileW, tileH, cells, 1))

\* A faulty VariantCells that gives no cell a salt.
RECURSIVE VariantCellsUnsalted(_, _, _)
VariantCellsUnsalted(prefix, entries, e) ==
  IF e > Len(entries) THEN <<>>
  ELSE [i \in 1..Len(entries[e][2]) |->
          [col |-> entries[e][2][i].col, row |-> entries[e][2][i].row,
           spriteKey |-> prefix \o ":" \o entries[e][1], salt |-> None]]
       \o VariantCellsUnsalted(prefix, entries, e + 1)

\* The cells of a variants map (type -> positions): one per position, the
\* salt the position's index in its type's list.
RECURSIVE VariantCells(_, _, _)
VariantCells(prefix, entries, e) ==
  IF e > Len(entries) THEN <<>>
  ELSE [i \in 1..Len(entries[e][2]) |->
          [col |-> entries[e][2][i].col, row |-> entries[e][2][i].row,
           spriteKey |-> prefix \o ":" \o entries[e][1],
           salt |-> Some(NumToString(i - 1))]]
       \o VariantCells(prefix, entries, e + 1)

\* The cells of parksBuildings (type -> position): no salt.
ParksCells(entries) ==
  [e \in 1..Len(entries) |->
     [col |-> entries[e][2].col, row |-> entries[e][2].row,
      spriteKey |-> "park:" \o entries[e][1], salt |-> None]]

OrElse(o, d) == IF IsSome(o) THEN Value(o) ELSE d

Grid(cols, rows, cells) == Some([cols |-> cols, rows |-> rows, cells |-> cells])

\* What generateProceduralSpriteSheetForKind hands to generateFromCells for a
\* cell-map kind: the grid size and the cells, or nothing (it returns null)
\* when the pack has no map for the kind.
CellsForKind(pack, kind) ==
  IF kind = "dense"
    THEN IF ~IsSome(pack.denseVariants) THEN None
         ELSE Grid(pack.cols, pack.rows, VariantCells("dense", Value(pack.denseVariants), 1))
  ELSE IF kind = "modern"
    THEN IF ~IsSome(pack.modernVariants) THEN None
         ELSE Grid(pack.cols, pack.rows, VariantCells("modern", Value(pack.modernVariants), 1))
  ELSE IF kind = "parks" \/ kind = "parksConstruction"
    THEN IF ~IsSome(pack.parksBuildings) THEN None
         ELSE Grid(OrElse(pack.parksCols, pack.cols), OrElse(pack.parksRows, pack.rows),
                   ParksCells(Value(pack.parksBuildings)))
  ELSE IF kind = "farms"
    THEN IF ~IsSome(pack.farmsVariants) THEN None
         ELSE Grid(OrElse(pack.farmsCols, pack.cols), OrElse(pack.farmsRows, pack.rows),
                   VariantCells("farm", Value(pack.farmsVariants), 1))
  ELSE IF kind = "shops"
    THEN IF ~IsSome(pack.shopsVariants) THEN None
         ELSE Grid(OrElse(pack.shopsCols, pack.cols), OrElse(pack.shopsRows, pack.rows),
                   VariantCells("shop", Value(pack.shopsVariants), 1))
  ELSE IF kind = "stations"
    THEN IF ~IsSome(pack.stationsVariants) THEN None
         ELSE Grid(OrElse(pack.stationsCols, pack.cols),
                   OrElse(pack.stationsRows, pack.rows),
                   VariantCells("station", Value(pack.stationsVariants), 1))
  ELSE None

\* A faulty generateProceduralSpriteSheetForKind that reads a missing cell
\* map as an empty one (`Object.entries(map ?? {})`) instead of returning null.
generateForKindMissingMapAsEmpty(pack, kind, env) ==
  IF kind \in GridKinds
    THEN generateFromSpriteOrder(pack, kind, getProceduralConfig(pack), env)
  ELSE IF ~IsSome(CellsForKind(pack, kind))
    THEN generateFromCells(pack, kind, pack.cols, pack.rows, "main", <<>>, env)
  ELSE generateFromCells(pack, kind, Value(CellsForKind(pack, kind)).cols,
                         Value(CellsForKind(pack, kind)).rows,
                         IF kind = "parksConstruction" THEN "construction" ELSE "main",
                         Value(CellsForKind(pack, kind)).cells, env)

generateProceduralSpriteSheetForKind(pack, kind, env) ==
  IF kind \in GridKinds
    THEN generateFromSpriteOrder(pack, kind, getProceduralConfig(pack), env)
  ELSE IF ~IsSome(CellsForKind(pack, kind)) THEN ReturnedNull
  ELSE generateFromCells(pack, kind, Value(CellsForKind(pack, kind)).cols,
                         Value(CellsForKind(pack, kind)).rows,
                         IF kind = "parksConstruction" THEN "construction" ELSE "main",
                         Value(CellsForKind(pack, kind)).cells, env)

(***************************************************************************)
(* Sprite sheet provider.  The image loader is outside this repository's   *)
(* sources; its cache is a Map from (src, filtered) to an image.           *)
(***************************************************************************)
getSpriteSheetSrc(pack, kind) ==
  CASE kind = "main" -> pack.src
    [] kind = "construction" -> pack.constructionSrc
    [] kind = "abandoned" -> pack.abandonedSrc
    [] kind = "dense" -> pack.denseSrc
    [] kind = "modern" -> pack.modernSrc
    [] kind = "parks" -> pack.parksSrc
    [] kind = "parksConstruction" -> pack.parksConstructionSrc
    [] kind = "farms" -> pack.farmsSrc
    [] kind = "shops" -> pack.shopsSrc
    [] kind = "stations" -> pack.stationsSrc
    [] OTHER -> None

GeneratedImage(sheet) == [origin |-> "generated", sheet |-> sheet]
FileImage == [origin |-> "file", sheet |-> NoSheet]

isImageCached(cache, src, filtered) == MapHas(cache, <<src, filtered>>)

\* registerGeneratedImage(src, sheet, { alsoRegisterFiltered: true }).
registerGeneratedImage(cache, src, sheet) ==
  MapSet(MapSet(cache, <<src, FALSE>>, GeneratedImage(sheet)),
         <<src, TRUE>>, GeneratedImage(sheet))

\* loadSpriteImage(src, applyFilter), the load succeeding.
loadSpriteImage(cache, src, applyFilter) ==
  IF MapHas(cache, <<src, applyFilter>>) THEN cache
  ELSE MapSet(cache, <<src, applyFilter>>, FileImage)

\* A faulty EnsurePath that never looks in the cache.
EnsurePathUncached(cache, pack, kind) ==
  LET src == getSpriteSheetSrc(pack, kind)
  IN IF ~IsSome(src) \/ Value(src) = "" THEN "noSrc"
     ELSE IF isProceduralSpritePack(pack) \/ startsWith(Value(src), "procedural:")
       THEN "generate"
     ELSE "load"

\* The branch ensureSpriteSheetLoaded takes.
EnsurePath(cache, pack, kind) ==
  LET src == getSpriteSheetSrc(pack, kind)
  IN IF ~IsSome(src) \/ Value(src) = "" THEN "noSrc"
     ELSE IF isProceduralSpritePack(pack) \/ startsWith(Value(src), "procedural:")
       THEN IF isImageCached(cache, Value(src), FALSE) \/ isImageCached(cache, Value(src), TRUE)
            THEN "cached" ELSE "generate"
     ELSE "load"

\* ensureSpriteSheetLoaded(pack, kind, options): the branch taken, what the
\* generator came to if it was called, and the cache afterwards.
Ensured(cache, pack, kind, applyFilter, env) ==
  LET src == getSpriteSheetSrc(pack, kind)
      path == EnsurePath(cache, pack, kind)
  IN IF path = "generate"
       THEN CHOOSE e \in
              {[path |-> path, result |-> sheet,
                cache |-> IF sheet.outcome = "sheet"
                          THEN registerGeneratedImage(cache, Value(src), sheet.sheet)
                          ELSE cache]
                 : sheet \in {generateProceduralSpriteSheetForKind(pack, kind, env)}} : TRUE
     ELSE IF path = "load"
       THEN [path |-> path, result |-> NotCalled,
             cache |-> loadSpriteImage(cache, Value(src), OrElse(applyFilter, TRUE))]
     ELSE [path |-> path, result |-> NotCalled, cache |-> cache]

(***************************************************************************)
(* Calls.  call records the last API call: its arguments, the branch taken *)
(* and what the generator came to.                                         *)
(***************************************************************************)
Call(op, pack, kind, env, path, result) ==
  [op |-> op, pack |-> pack, kind |-> kind, env |-> env, path |-> path, result |-> result]

Idle == Call("idle", EmptyPack, "", "", "", NotCalled)

(***************************************************************************)
(* Bounds and inputs                                                       *)
(***************************************************************************)
MaxRegistered == 2     \* renderers registered at once, over all tables
MaxCached == 1         \* sources held by the image cache
MaxRuns == 2           \* generator runs recorded for comparison

Prefixes == {"farm"}
SpriteKeys == {"house_small", "farm:silo"}
ProceduralPacks == {PackUser, PackBasic}
DrawnKinds == {"main", "farms"}
ApplyFilters == {None, Some(FALSE)}
RunPrefixes == {"farm", "park"}
RunPacks == {PackBasic}
RunKinds == {"parks"}
RunEnvs == {"browser", "noContext"}

\* The number of renderers in a Map of pack Maps.
RECURSIVE EntryCount(_, _)
EntryCount(root, i) ==
  IF i > Len(root) THEN 0 ELSE Len(root[i][2]) + EntryCount(root, i + 1)

RegistrySize ==
  Len(prefixRenderers) + Len(spriteKeyRenderers)
    + EntryCount(prefixRenderersByPack, 1) + EntryCount(spriteKeyRenderersByPack, 1)

\* History: the registrations of (table, packId, key) and of a whole table.
Forget(table, packId, key) ==
  {e \in registered : ~(e[1] = table /\ e[2] = packId /\ e[3] = key)}
Remember(table, packId, key, renderer) ==
  Forget(table, packId, key) \cup {<<table, packId, key, renderer>>}

(***************************************************************************)
(* Registry actions                                                        *)
(***************************************************************************)
registerProceduralPrefixRenderer(prefix, renderer) ==
  /\ call = Idle
  /\ MapHas(prefixRenderers, prefix) \/ RegistrySize < MaxRegistered
  /\ prefixRenderers' = MapSet(prefixRenderers, prefix, renderer)
  /\ registered' = Remember("prefix", "", prefix, renderer)
  /\ UNCHANGED <<spriteKeyRenderers, prefixRenderersByPack, spriteKeyRenderersByPack,
                 imageCache, runs, call, assets, SPRITE_PACKS>>

unregisterProceduralPrefixRenderer(prefix) ==
  /\ call = Idle
  /\ prefixRenderers' = MapDelete(prefixRenderers, prefix)
  /\ registered' = Forget("prefix", "", prefix)
  /\ UNCHANGED <<spriteKeyRenderers, prefixRenderersByPack, spriteKeyRenderersByPack,
                 imageCache, runs, call, assets, SPRITE_PACKS>>

registerProceduralSpriteRenderer(spriteKey, renderer) ==
  /\ call = Idle
  /\ MapHas(spriteKeyRenderers, spriteKey) \/ RegistrySize < MaxRegistered
  /\ spriteKeyRenderers' = MapSet(spriteKeyRenderers, spriteKey, renderer)
  /\ registered' = Remember("sprite", "", spriteKey, renderer)
  /\ UNCHANGED <<prefixRenderers, prefixRenderersByPack, spriteKeyRenderersByPack,
                 imageCache, runs, call, assets, SPRITE_PACKS>>

unregisterProceduralSpriteRenderer(spriteKey) ==
  /\ call = Idle
  /\ spriteKeyRenderers' = MapDelete(spriteKeyRenderers, spriteKey)
  /\ registered' = Forget("sprite", "", spriteKey)
  /\ UNCHANGED <<prefixRenderers, prefixRenderersByPack, spriteKeyRenderersByPack,
                 imageCache, runs, call, assets, SPRITE_PACKS>>

clearProceduralSpriteRenderers ==
  /\ call = Idle
  /\ spriteKeyRenderers' = <<>>
  /\ registered' = {e \in registered : ~(e[1] = "sprite" /\ e[2] = "")}
  /\ UNCHANGED <<prefixRenderers, prefixRenderersByPack, spriteKeyRenderersByPack,
                 imageCache, runs, call, assets, SPRITE_PACKS>>

\* getPackMap(root, packId).set(key, renderer)
SetForPack(root, packId, key, renderer) ==
  LET made == getPackMapRoot(root, packId)
  IN MapSet(made, packId, MapSet(MapGet(made, packId), key, renderer))

\* A faulty DeleteForPack that deletes the key from the Map of every pack.
DeleteForEveryPack(root, packId, key) ==
  [i \in 1..Len(root) |-> <<root[i][1], MapDelete(root[i][2], key)>>]

\* root.get(packId)?.delete(key)
DeleteForPack(root, packId, key) ==
  IF MapHas(root, packId) THEN MapSet(root, packId, MapDelete(MapGet(root, packId), key))
  ELSE root

registerProceduralPrefixRendererForPack(packId, prefix, renderer) ==
  /\ call = Idle
  /\ \/ IsSome(MapGetMap(prefixRenderersByPack, packId))
          /\ MapHas(Value(MapGetMap(prefixRenderersByPack, packId)), prefix)
     \/ RegistrySize < MaxRegistered
  /\ prefixRenderersByPack' = SetForPack(prefixRenderersByPack, packId, prefix, renderer)
  /\ registered' = Remember("prefix", packId, prefix, renderer)
  /\ UNCHANGED <<prefixRenderers, spriteKeyRenderers, spriteKeyRenderersByPack,
                 imageCache, runs, call, assets, SPRITE_PACKS>>

unregisterProceduralPrefixRendererForPack(packId, prefix) ==
  /\ call = Idle
  /\ prefixRenderersByPack' = DeleteForPack(prefixRenderersByPack, packId, prefix)
  /\ registered' = Forget("prefix", packId, prefix)
  /\ UNCHANGED <<prefixRenderers, spriteKeyRenderers, spriteKeyRenderersByPack,
                 imageCache, runs, call, assets, SPRITE_PACKS>>

registerProceduralSpriteRendererForPack(packId, spriteKey, renderer) ==
  /\ call = Idle
  /\ \/ IsSome(MapGetMap(spriteKeyRenderersByPack, packId))
          /\ MapHas(Value(MapGetMap(spriteKeyRenderersByPack, packId)), spriteKey)
     \/ RegistrySize < MaxRegistered
  /\ spriteKeyRenderersByPack' =
       SetForPack(spriteKeyRenderersByPack, packId, spriteKey, renderer)
  /\ registered' = Remember("sprite", packId, spriteKey, renderer)
  /\ UNCHANGED <<prefixRenderers, spriteKeyRenderers, prefixRenderersByPack,
                 imageCache, runs, call, assets, SPRITE_PACKS>>

unregisterProceduralSpriteRendererForPack(packId, spriteKey) ==
  /\ call = Idle
  /\ spriteKeyRenderersByPack' = DeleteForPack(spriteKeyRenderersByPack, packId, spriteKey)
  /\ registered' = Forget("sprite", packId, spriteKey)
  /\ UNCHANGED <<prefixRenderers, spriteKeyRenderers, prefixRenderersByPack,
                 imageCache, runs, call, assets, SPRITE_PACKS>>

clearProceduralRenderersForPack(packId) ==
  /\ call = Idle
  /\ prefixRenderersByPack' = MapDelete(prefixRenderersByPack, packId)
  /\ spriteKeyRenderersByPack' = MapDelete(spriteKeyRenderersByPack, packId)
  /\ registered' = {e \in registered : e[2] # packId}
  /\ UNCHANGED <<prefixRenderers, spriteKeyRenderers, imageCache, runs, call, assets, SPRITE_PACKS>>

RegistryStep ==
  \/ \E prefix \in Prefixes, renderer \in Renderers :
       registerProceduralPrefixRenderer(prefix, renderer)
  \/ \E prefix \in Prefixes : unregisterProceduralPrefixRenderer(prefix)
  \/ \E spriteKey \in SpriteKeys, renderer \in Renderers :
       registerProceduralSpriteRenderer(spriteKey, renderer)
  \/ \E spriteKey \in SpriteKeys : unregisterProceduralSpriteRenderer(spriteKey)
  \/ clearProceduralSpriteRenderers
  \/ \E packId \in PackIds, prefix \in Prefixes, renderer \in Renderers :
       registerProceduralPrefixRendererForPack(packId, prefix, renderer)
  \/ \E packId \in PackIds, prefix \in Prefixes :
       unregisterProceduralPrefixRendererForPack(packId, prefix)
  \/ \E packId \in PackIds, spriteKey \in SpriteKeys, renderer \in Renderers :
       registerProceduralSpriteRendererForPack(packId, spriteKey, renderer)
  \/ \E packId \in PackIds, spriteKey \in SpriteKeys :
       unregisterProceduralSpriteRendererForPack(packId, spriteKey)
  \/ \E packId \in PackIds : clearProceduralRenderersForPack(packId)

(***************************************************************************)
(* Generator and provider actions                                          *)
(***************************************************************************)
GenerateForKind(pack, kind, env) ==
  /\ call = Idle
  /\ call' = Call("generateProceduralSpriteSheetForKind", pack, kind, env, "",
                  generateProceduralSpriteSheetForKind(pack, kind, env))
  /\ UNCHANGED <<registry, imageCache, registered, runs, assets, SPRITE_PACKS>>

GenerateSheet(pack, variant, env) ==
  /\ call = Idle
  /\ call' = Call("generateProceduralSpriteSheet", pack, variant, env, "",
                  generateProceduralSpriteSheet(pack, variant, env))
  /\ UNCHANGED <<registry, imageCache, registered, runs, assets, SPRITE_PACKS>>

\* The sources the cache holds (each generated source has two entries).
CachedSources(cache) == {cache[i][1][1] : i \in 1..Len(cache)}

ensureSpriteSheetLoaded(pack, kind, applyFilter, env) ==
  /\ call = Idle
  /\ \E e \in {Ensured(imageCache, pack, kind, applyFilter, env)} :
       /\ Cardinality(CachedSources(e.cache)) <= MaxCached
       /\ imageCache' = e.cache
       /\ call' = Call("ensureSpriteSheetLoaded", pack, kind, env, e.path, e.result)
  /\ UNCHANGED <<registry, registered, runs, assets, SPRITE_PACKS>>

\* ensureSpriteSheetLoaded while the image file cannot be fetched:
\* loadSpriteImage rejects unless it holds the image from an earlier load,
\* and the rejection leaves the function through its only await.
EnsuredOffline(cache, pack, kind, applyFilter, env) ==
  IF /\ EnsurePath(cache, pack, kind) = "load"
     /\ ~isImageCached(cache, Value(getSpriteSheetSrc(pack, kind)), OrElse(applyFilter, TRUE))
  THEN [path |-> "loadRejected", result |-> NotCalled, cache |-> cache]
  ELSE Ensured(cache, pack, kind, applyFilter, env)

ensureSpriteSheetLoadedOffline(pack, kind, applyFilter, env) ==
  /\ call = Idle
  /\ \E e \in {EnsuredOffline(imageCache, pack, kind, applyFilter, env)} :
       /\ Cardinality(CachedSources(e.cache)) <= MaxCached
       /\ imageCache' = e.cache
       /\ call' = Call("ensureSpriteSheetLoaded", pack, kind, env, e.path, e.result)
  /\ UNCHANGED <<registry, registered, runs, assets, SPRITE_PACKS>>

\* A generator run kept for comparison with the next one: the registry it
\* ran under and what it came to.
Run(pack, kind, env) ==
  [pack |-> pack, kind |-> kind, env |-> env,
   prefixRenderers |-> prefixRenderers, spriteKeyRenderers |-> spriteKeyRenderers,
   prefixRenderersByPack |-> prefixRenderersByPack,
   spriteKeyRenderersByPack |-> spriteKeyRenderersByPack,
   result |-> generateProceduralSpriteSheetForKind(pack, kind, env)]

RecordedRun(pack, kind, env) ==
  /\ call = Idle
  /\ Len(runs) < MaxRuns
  /\ runs' = Append(runs, Run(pack, kind, env))
  /\ call' = Call("generateProceduralSpriteSheetForKind", pack, kind, env, "", NotCalled)
  /\ UNCHANGED <<registry, imageCache, registered, assets, SPRITE_PACKS>>

\* The caller is done with what the last call returned.
Return ==
  /\ call # Idle
  /\ call' = Idle
  /\ UNCHANGED <<registry, imageCache, registered, runs, assets, SPRITE_PACKS>>

(***************************************************************************)
(* Procedural assets mode.  A JavaScript value is its typeof and, for a    *)
(* string, its text.                                                       *)
(***************************************************************************)
JsString(text) == [type |-> "string", text |-> text]
JsUndefined == [type |-> "undefined", text |-> ""]
JsNull == [type |-> "object", text |-> "null"]
JsNumber(n) == [type |-> "number", text |-> NumToString(n)]
JsBoolean(b) == [type |-> "boolean", text |-> IF b THEN "true" ELSE "false"]

\* String.prototype.trim over the white space the model's strings use.
WhiteSpace == " \t\n"
RECURSIVE trimStart(_)
trimStart(s) ==
  IF s # "" /\ Within(WhiteSpace, charAt(s, 1)) THEN trimStart(SubSeq(s, 2, Len(s))) ELSE s
RECURSIVE trimEnd(_)
trimEnd(s) ==
  IF s # "" /\ Within(WhiteSpace, charAt(s, Len(s)))
  THEN trimEnd(SubSeq(s, 1, Len(s) - 1)) ELSE s
trim(s) == trimEnd(trimStart(s))

\* String.prototype.toLowerCase.
RECURSIVE toLowerCase(_)
toLowerCase(s) ==
  IF s = "" THEN ""
  ELSE (IF Within(Capitals, charAt(s, 1))
        THEN charAt(Letters, IndexIn(Capitals, charAt(s, 1)))
        ELSE charAt(s, 1))
       \o toLowerCase(SubSeq(s, 2, Len(s)))

\* A faulty normalizeProceduralAssetsMode that does not trim.
normalizeUntrimmed(value) ==
  IF value.type # "string" THEN None
  ELSE LET v == toLowerCase(value.text)
       IN IF v \in {"off", "false", "0", "disabled"} THEN Some("off")
          ELSE IF v \in {"fallback", "auto"} THEN Some("fallback")
          ELSE IF v \in {"force", "always", "on", "true", "1"} THEN Some("force")
          ELSE None

\* normalizeProceduralAssetsMode(value): a mode, or null.
normalizeProceduralAssetsMode(value) ==
  IF value.type # "string" THEN None
  ELSE LET v == toLowerCase(trim(value.text))
       IN IF v = "off" \/ v = "false" \/ v = "0" \/ v = "disabled" THEN Some("off")
          ELSE IF v = "fallback" \/ v = "auto" THEN Some("fallback")
          ELSE IF v = "force" \/ v = "always" \/ v = "on" \/ v = "true" \/ v = "1"
            THEN Some("force")
          ELSE None

\* The platform of a run: whether there is a window, how its localStorage
\* answers ("works", "throws" on every access, "full": setItem throws), and
\* the two build-time variables.
Platform(window, storage, assetsMode, assetsShorthand) ==
  [window |-> window, storage |-> storage,
   NEXT_PUBLIC_PROCEDURAL_ASSETS_MODE |-> assetsMode,
   NEXT_PUBLIC_PROCEDURAL_ASSETS |-> assetsShorthand]
Browser == Platform(TRUE, "works", JsUndefined, JsUndefined)

\* A faulty getProceduralAssetsMode that asks the build-time variable
\* before the stored preference.
getModeBuildTimeFirst(stored, plat) ==
  IF IsSome(normalizeProceduralAssetsMode(plat.NEXT_PUBLIC_PROCEDURAL_ASSETS_MODE))
    THEN Value(normalizeProceduralAssetsMode(plat.NEXT_PUBLIC_PROCEDURAL_ASSETS_MODE))
  ELSE IF plat.window /\ plat.storage # "throws"
            /\ IsSome(normalizeProceduralAssetsMode(stored))
    THEN Value(normalizeProceduralAssetsMode(stored))
  ELSE IF IsSome(normalizeProceduralAssetsMode(plat.NEXT_PUBLIC_PROCEDURAL_ASSETS))
    THEN Value(normalizeProceduralAssetsMode(plat.NEXT_PUBLIC_PROCEDURAL_ASSETS))
  ELSE "off"

\* getProceduralAssetsMode(), stored being the localStorage item.
getProceduralAssetsMode(stored, plat) ==
  IF plat.window /\ plat.storage # "throws"
       /\ IsSome(normalizeProceduralAssetsMode(stored))
    THEN Value(normalizeProceduralAssetsMode(stored))
  ELSE IF IsSome(normalizeProceduralAssetsMode(plat.NEXT_PUBLIC_PROCEDURAL_ASSETS_MODE))
    THEN Value(normalizeProceduralAssetsMode(plat.NEXT_PUBLIC_PROCEDURAL_ASSETS_MODE))
  ELSE IF IsSome(normalizeProceduralAssetsMode(plat.NEXT_PUBLIC_PROCEDURAL_ASSETS))
    THEN Value(normalizeProceduralAssetsMode(plat.NEXT_PUBLIC_PROCEDURAL_ASSETS))
  ELSE "off"

\* setStoredProceduralAssetsMode(mode): the item afterwards.
setStoredProceduralAssetsMode(stored, plat, m) ==
  IF ~plat.window \/ plat.storage # "works" THEN stored ELSE JsString(m)

\* The last asset-mode call: its name, its argument, what it returned, and
\* for getProceduralAssetsMode the set or clear call it directly followed.
ModeCall(op, input, value, after) ==
  [op |-> op, input |-> input, value |-> value, after |-> after]
NoModeCall == ModeCall("none", JsUndefined, None, <<>>)

Modes == {"off", "fallback", "force"}

setProceduralAssetsModeOverride(m) ==
  /\ localStorage' = setStoredProceduralAssetsMode(localStorage, platform, m)
  /\ mode' = ModeCall("setProceduralAssetsModeOverride", JsString(m), None, <<>>)
  /\ UNCHANGED <<registry, imageCache, registered, runs, call, platform, SPRITE_PACKS>>

\* The back-compat alias.
setProceduralAssetsMode(m) ==
  /\ localStorage' = setStoredProceduralAssetsMode(localStorage, platform, m)
  /\ mode' = ModeCall("setProceduralAssetsMode", JsString(m), None, <<>>)
  /\ UNCHANGED <<registry, imageCache, registered, runs, call, platform, SPRITE_PACKS>>

clearProceduralAssetsModeOverride ==
  /\ localStorage' = IF ~platform.window \/ platform.storage = "throws"
                     THEN localStorage ELSE JsNull
  /\ mode' = ModeCall("clearProceduralAssetsModeOverride", JsUndefined, None, <<>>)
  /\ UNCHANGED <<registry, imageCache, registered, runs, call, platform, SPRITE_PACKS>>

\* The item is written from outside the module (the documented way to
\* experiment), on a platform that has a window.
StoredValues == {"force", " Fallback\n", "OFF", "procedural", ""}
StorageEdited(text) ==
  /\ platform.window
  /\ localStorage' = JsString(text)
  /\ mode' = ModeCall("localStorage.setItem", JsString(text), None, <<>>)
  /\ UNCHANGED <<registry, imageCache, registered, runs, call, platform, SPRITE_PACKS>>

GetMode ==
  /\ mode.op # "getProceduralAssetsMode"
  /\ mode' = ModeCall("getProceduralAssetsMode", JsUndefined,
                      Some(getProceduralAssetsMode(localStorage, platform)),
                      <<mode.op, mode.input>>)
  /\ UNCHANGED <<registry, imageCache, registered, runs, call, localStorage, platform, SPRITE_PACKS>>

\* The caller is done with the mode it got.
ModeReturn ==
  /\ mode.op \in {"getProceduralAssetsMode", "normalizeProceduralAssetsMode"}
  /\ mode' = NoModeCall
  /\ UNCHANGED <<registry, imageCache, registered, runs, call, localStorage, platform, SPRITE_PACKS>>

\* The values normalizeProceduralAssetsMode is tried on: every alias in
\* three casings between paddings of white space, strings that are no
\* alias, and values that are no strings.
RECURSIVE toUpperCase(_)
toUpperCase(s) ==
  IF s = "" THEN ""
  ELSE (IF Within(Letters, charAt(s, 1))
        THEN charAt(Capitals, IndexIn(Letters, charAt(s, 1)))
        ELSE charAt(s, 1))
       \o toUpperCase(SubSeq(s, 2, Len(s)))
Capitalized(s) == IF s = "" THEN "" ELSE toUpperCase(charAt(s, 1)) \o SubSeq(s, 2, Len(s))
Paddings == {"", " ", "\t", " \n"}
Spellings(words) ==
  {padL \o cased \o padR :
     padL \in Paddings, padR \in Paddings,
     cased \in UNION {{w, toUpperCase(w), Capitalized(w)} : w \in words}}
OffAliases == {"off", "0", "false", "disabled"}
FallbackAliases == {"fallback", "auto"}
ForceAliases == {"force", "1", "true", "on", "always"}
OtherWords == {"", "yes", "of f", "offf", "2", "forced", "fall back", "null", "enabled"}
NormalizeInputs ==
  {JsString(text) :
     text \in Spellings(OffAliases \cup FallbackAliases \cup ForceAliases \cup OtherWords)}
    \cup {JsUndefined, JsNull, JsNumber(0), JsNumber(1), JsBoolean(TRUE), JsBoolean(FALSE)}

Normalize(value) ==
  /\ mode.op = "none"
  /\ mode' = ModeCall("normalizeProceduralAssetsMode", value,
                      normalizeProceduralAssetsMode(value), <<>>)
  /\ UNCHANGED <<registry, imageCache, registered, runs, call, localStorage, platform, SPRITE_PACKS>>

(***************************************************************************)
(* Sprite pack registry.  renderConfig.ts is outside this repository's     *)
(* sources: its SPRITE_PACKS array and getSpritePack are modelled from     *)
(* their use.                                                              *)
(***************************************************************************)
BuiltinPacks == <<PackFile>>

\* SPRITE_PACKS.findIndex((p) => p.id === id), 1-based, 0 when not found.
findIndex(packs, id) ==
  IF \E i \in 1..Len(packs) : packs[i].id = id
  THEN CHOOSE i \in 1..Len(packs) : packs[i].id = id /\ \A j \in 1..(i - 1) : packs[j].id # id
  ELSE 0

\* getSpritePack(id): the pack of that id, else the first pack.
getSpritePack(packs, id) ==
  IF findIndex(packs, id) > 0 THEN packs[findIndex(packs, id)] ELSE packs[1]

\* A faulty registerSpritePack that pushes without looking for the id.
registerAlwaysPushed(packs, pack, replace) == Append(packs, pack)

\* registerSpritePack(pack, options): the array afterwards.
registerSpritePack(packs, pack, replace) ==
  IF findIndex(packs, pack.id) > 0
  THEN IF OrElse(replace, FALSE) THEN [packs EXCEPT ![findIndex(packs, pack.id)] = pack]
       ELSE packs
  ELSE Append(packs, pack)

\* ProceduralSpritePackOptions; seed, tileWidth and tileHeight are optional.
PackOptions(id, seed, tileWidth, tileHeight) ==
  [id |-> id, seed |-> seed, tileWidth |-> tileWidth, tileHeight |-> tileHeight]

\* A faulty createProceduralSpritePackFromBase that gives every kind a
\* cache key, whether the base pack has its cell map or not.
createWithEveryKindKeyed(basePack, opts) ==
  [basePack EXCEPT
     !.id = opts.id,
     !.src = Some("procedural:" \o opts.id \o ":main"),
     !.constructionSrc = Some("procedural:" \o opts.id \o ":construction"),
     !.abandonedSrc = Some("procedural:" \o opts.id \o ":abandoned"),
     !.denseSrc = Some("procedural:" \o opts.id \o ":dense"),
     !.modernSrc = Some("procedural:" \o opts.id \o ":modern"),
     !.parksSrc = Some("procedural:" \o opts.id \o ":parks"),
     !.parksConstructionSrc = Some("procedural:" \o opts.id \o ":parksConstruction"),
     !.farmsSrc = Some("procedural:" \o opts.id \o ":farms"),
     !.shopsSrc = Some("procedural:" \o opts.id \o ":shops"),
     !.stationsSrc = Some("procedural:" \o opts.id \o ":stations"),
     !.procedural = Some([tileWidth |-> OrElse(opts.tileWidth, 256),
                          tileHeight |-> OrElse(opts.tileHeight, 213),
                          seed |-> Some(OrElse(opts.seed, 0))])]

\* createProceduralSpritePackFromBase(basePack, opts); name and previewSrc
\* play no part in generation and are left out.
createProceduralSpritePackFromBase(basePack, opts) ==
  LET base == IF IsSome(basePack.procedural) THEN Value(basePack.procedural)
              ELSE [tileWidth |-> 256, tileHeight |-> 213, seed |-> None]
  IN [basePack EXCEPT
        !.id = opts.id,
        !.src = Some("procedural:" \o opts.id \o ":main"),
        !.constructionSrc = Some("procedural:" \o opts.id \o ":construction"),
        !.abandonedSrc = Some("procedural:" \o opts.id \o ":abandoned"),
        !.denseSrc = IF IsSome(basePack.denseVariants)
                     THEN Some("procedural:" \o opts.id \o ":dense") ELSE @,
        !.modernSrc = IF IsSome(basePack.modernVariants)
                      THEN Some("procedural:" \o opts.id \o ":modern") ELSE @,
        !.parksSrc = IF IsSome(basePack.parksBuildings)
                     THEN Some("procedural:" \o opts.id \o ":parks") ELSE @,
        !.parksConstructionSrc = IF IsSome(basePack.parksBuildings)
                                 THEN Some("procedural:" \o opts.id \o ":parksConstruction")
                                 ELSE @,
        !.farmsSrc = IF IsSome(basePack.farmsVariants)
                     THEN Some("procedural:" \o opts.id \o ":farms") ELSE @,
        !.shopsSrc = IF IsSome(basePack.shopsVariants)
                     THEN Some("procedural:" \o opts.id \o ":shops") ELSE @,
        !.stationsSrc = IF IsSome(basePack.stationsVariants)
                        THEN Some("procedural:" \o opts.id \o ":stations") ELSE @,
        !.procedural = Some([tileWidth |-> OrElse(opts.tileWidth, base.tileWidth),
                             tileHeight |-> OrElse(opts.tileHeight, base.tileHeight),
                             seed |-> Some(OrElse(opts.seed, OrElse(base.seed, 0)))])]

MaxPacks == 3          \* packs in SPRITE_PACKS

\* A call of the pack registry: the array before it, the base pack and the
\* options of a derived pack, and the pack handed to registerSpritePack.
PackCall(op, before, base, opts, pack, replace) ==
  [op |-> op, before |-> before, base |-> base, opts |-> opts, pack |-> pack,
   replace |-> replace]

RegisterSpritePack(pack, replace) ==
  /\ call = Idle
  /\ Len(registerSpritePack(SPRITE_PACKS, pack, replace)) <= MaxPacks
  /\ SPRITE_PACKS' = registerSpritePack(SPRITE_PACKS, pack, replace)
  /\ call' = PackCall("registerSpritePack", SPRITE_PACKS, EmptyPack,
                      PackOptions("", None, None, None), pack, replace)
  /\ UNCHANGED <<registry, imageCache, registered, runs, assets>>

registerProceduralSpritePack(basePackId, opts, replace) ==
  /\ call = Idle
  /\ \E pack \in {createProceduralSpritePackFromBase(getSpritePack(SPRITE_PACKS, basePackId),
                                                     opts)} :
       /\ Len(registerSpritePack(SPRITE_PACKS, pack, replace)) <= MaxPacks
       /\ SPRITE_PACKS' = registerSpritePack(SPRITE_PACKS, pack, replace)
       /\ call' = PackCall("registerProceduralSpritePack", SPRITE_PACKS,
                           getSpritePack(SPRITE_PACKS, basePackId), opts, pack, replace)
  /\ UNCHANGED <<registry, imageCache, registered, runs, assets>>

\* registerProceduralUserAssets, its registration of the pack.
registerProceduralUserAssets ==
  registerProceduralSpritePack("sprites4",
                               PackOptions("procedural-user", Some(20251227), None, None),
                               None)

(***************************************************************************)
(* Specifications                                                          *)
(***************************************************************************)
Init ==
  /\ prefixRenderers = <<>>
  /\ spriteKeyRenderers = <<>>
  /\ prefixRenderersByPack = <<>>
  /\ spriteKeyRenderersByPack = <<>>
  /\ imageCache = <<>>
  /\ registered = {}
  /\ runs = <<>>
  /\ call = Idle
  /\ localStorage = JsNull
  /\ platform = Browser
  /\ mode = NoModeCall
  /\ SPRITE_PACKS = BuiltinPacks

\* The registry, and sheet generation with a drawing surface.
Generate ==
  \E pack \in ProceduralPacks, kind \in DrawnKinds :
    GenerateForKind(pack, kind, "browser")

Next == RegistryStep \/ Generate \/ Return

Spec == Init /\ [][Next]_vars

\* Every generator entrypoint, every pack, every kind, every environment.
EntryForKind ==
  \E pack \in Packs, kind \in Kinds, env \in Envs : GenerateForKind(pack, kind, env)
EntrySheet ==
  \E pack \in Packs, variant \in GridKinds, env \in Envs : GenerateSheet(pack, variant, env)

NextEntry == EntryForKind \/ EntrySheet \/ Return

SpecEntry == Init /\ [][NextEntry]_vars

\* The provider and its image cache.
EntryEnsure ==
  \E pack \in Packs, kind \in Kinds, applyFilter \in ApplyFilters, env \in Envs :
    ensureSpriteSheetLoaded(pack, kind, applyFilter, env)

NextProvider == EntryEnsure \/ Return

SpecProvider == Init /\ [][NextProvider]_vars

\* Two generator runs, the global prefix table changing before and between.
RunRegistryStep ==
  /\ Len(runs) < MaxRuns
  /\ \/ \E prefix \in RunPrefixes, renderer \in Renderers :
          registerProceduralPrefixRenderer(prefix, renderer)
     \/ \E prefix \in RunPrefixes : unregisterProceduralPrefixRenderer(prefix)

RunGenerate ==
  \E pack \in RunPacks, kind \in RunKinds, env \in RunEnvs : RecordedRun(pack, kind, env)

NextRuns == RunRegistryStep \/ RunGenerate \/ Return

SpecRuns == Init /\ [][NextRuns]_vars

\* The asset mode on every platform.
BuildTimeValues == {JsUndefined, JsString("off"), JsString("fallback"), JsString("FORCE"),
                    JsString("procedural")}
ShorthandValues == {JsUndefined, JsString("1"), JsString("auto")}
Platforms ==
  {Platform(window, storage, assetsMode, assetsShorthand) :
     window \in BOOLEAN, storage \in {"works", "throws", "full"},
     assetsMode \in BuildTimeValues, assetsShorthand \in ShorthandValues}
InitMode ==
  /\ prefixRenderers = <<>>
  /\ spriteKeyRenderers = <<>>
  /\ prefixRenderersByPack = <<>>
  /\ spriteKeyRenderersByPack = <<>>
  /\ imageCache = <<>>
  /\ registered = {}
  /\ runs = <<>>
  /\ call = Idle
  /\ localStorage = JsNull
  /\ platform \in Platforms
  /\ mode = NoModeCall
  /\ SPRITE_PACKS = BuiltinPacks
SetMode ==
  \E m \in Modes : setProceduralAssetsModeOverride(m) \/ setProceduralAssetsMode(m)
EditStorage == \E text \in StoredValues : StorageEdited(text)
NextMode == SetMode \/ clearProceduralAssetsModeOverride \/ EditStorage \/ GetMode \/ ModeReturn

SpecMode == InitMode /\ [][NextMode]_vars

\* The provider under every asset mode, the image files loading or not.
\* The mode changes between calls of the provider.
AssetPlatforms ==
  {Platform(TRUE, "works", assetsMode, JsUndefined) : assetsMode \in BuildTimeValues}
AssetPacks == {PackFileParks, PackBasic}
AssetKinds == {"dense", "parks", "shops"}
InitAssets ==
  /\ prefixRenderers = <<>>
  /\ spriteKeyRenderers = <<>>
  /\ prefixRenderersByPack = <<>>
  /\ spriteKeyRenderersByPack = <<>>
  /\ imageCache = <<>>
  /\ registered = {}
  /\ runs = <<>>
  /\ call = Idle
  /\ localStorage = JsNull
  /\ platform \in AssetPlatforms
  /\ mode = NoModeCall
  /\ SPRITE_PACKS = BuiltinPacks
ModeChosen == call = Idle /\ SetMode
ModeCleared == call = Idle /\ clearProceduralAssetsModeOverride
EnsureOnline ==
  \E pack \in AssetPacks, kind \in AssetKinds :
    ensureSpriteSheetLoaded(pack, kind, None, "browser")
EnsureOffline ==
  \E pack \in AssetPacks, kind \in AssetKinds :
    ensureSpriteSheetLoadedOffline(pack, kind, None, "browser")
NextAssets == ModeChosen \/ ModeCleared \/ EnsureOnline \/ EnsureOffline \/ Return

SpecAssets == InitAssets /\ [][NextAssets]_vars

\* styleForSpriteKey on every key: the keys the rules name and keys no rule
\* names, bare and under every prefix.
BaseKeys ==
  {"house_small", "house_medium", "mansion", "cabin", "mountain_lodge", "residential",
   "apartment_low", "apartment_high", "office_low", "office_high", "shop_small",
   "shop_medium", "commercial", "mall", "factory_small", "factory_medium", "factory_large",
   "warehouse", "industrial", "police_station", "fire_station", "hospital", "school",
   "university", "tree", "park", "park_large", "community_garden", "playground_small",
   "campground", "mountain_trailhead", "pond_park", "tennis", "basketball_courts",
   "soccer_field_small", "swimming_pool", "skate_park", "go_kart_track", "roller_coaster_small",
   "marina_docks_small", "pier_large", "power_plant", "water_tower", "subway_station",
   "rail_station", "stadium", "baseball_stadium", "museum", "amphitheater", "airport",
   "space_program", "city_hall", "park_gate", "amusement_park", "water",
   "", "kiosk", "silo", "rail", "waterfall"}
KeyPrefixes == {"dense", "modern", "farm", "station", "park", "shop"}
StyleKeys == BaseKeys \cup {prefix \o ":" \o key : prefix \in KeyPrefixes, key \in BaseKeys}
StyleFor(spriteKey) ==
  /\ call = Idle
  /\ call' = [op |-> "styleForSpriteKey", spriteKey |-> spriteKey,
              result |-> styleForSpriteKey(spriteKey)]
  /\ UNCHANGED <<registry, imageCache, registered, runs, assets, SPRITE_PACKS>>
StyleStep == \E spriteKey \in StyleKeys : StyleFor(spriteKey)
NextStyle == StyleStep \/ Return

SpecStyle == Init /\ [][NextStyle]_vars

\* The extension registry with two packs: every register, unregister and
\* clear, and the lookups and lists, which only read.
RegistryPackIds == {"procedural-user", "procedural-basic"}

LookupRenderer(table, key, packId) ==
  /\ call = Idle
  /\ call' = [op |-> IF table = "prefix" THEN "getProceduralPrefixRenderer"
                     ELSE "getProceduralSpriteRenderer",
              key |-> key, packId |-> packId,
              result |-> IF table = "prefix" THEN getProceduralPrefixRenderer(key, packId)
                         ELSE getProceduralSpriteRenderer(key, packId)]
  /\ UNCHANGED <<registry, imageCache, registered, runs, assets, SPRITE_PACKS>>

ListRenderers(table, packId) ==
  /\ call = Idle
  /\ call' = [op |-> "list", key |-> table, packId |-> packId,
              result |-> IF table = "prefix"
                         THEN IF IsSome(packId)
                              THEN listProceduralPrefixRenderersForPack(Value(packId))
                              ELSE listProceduralPrefixRenderers
                         ELSE IF IsSome(packId)
                              THEN listProceduralSpriteRenderersForPack(Value(packId))
                              ELSE listProceduralSpriteRenderers]
  /\ UNCHANGED <<registry, imageCache, registered, runs, assets, SPRITE_PACKS>>

LookupPackIds == {None} \cup {Some(packId) : packId \in RegistryPackIds}

GlobalRegistryStep ==
  \/ \E prefix \in Prefixes, renderer \in Renderers :
       registerProceduralPrefixRenderer(prefix, renderer)
  \/ \E prefix \in Prefixes : unregisterProceduralPrefixRenderer(prefix)
  \/ \E spriteKey \in SpriteKeys, renderer \in Renderers :
       registerProceduralSpriteRenderer(spriteKey, renderer)
  \/ \E spriteKey \in SpriteKeys : unregisterProceduralSpriteRenderer(spriteKey)
  \/ clearProceduralSpriteRenderers

PackRegistryStep ==
  \/ \E packId \in RegistryPackIds, prefix \in Prefixes, renderer \in Renderers :
       registerProceduralPrefixRendererForPack(packId, prefix, renderer)
  \/ \E packId \in RegistryPackIds, prefix \in Prefixes :
       unregisterProceduralPrefixRendererForPack(packId, prefix)
  \/ \E packId \in RegistryPackIds, spriteKey \in SpriteKeys, renderer \in Renderers :
       registerProceduralSpriteRendererForPack(packId, spriteKey, renderer)
  \/ \E packId \in RegistryPackIds, spriteKey \in SpriteKeys :
       unregisterProceduralSpriteRendererForPack(packId, spriteKey)
  \/ \E packId \in RegistryPackIds : clearProceduralRenderersForPack(packId)

ReadRegistryStep ==
  \/ \E prefix \in Prefixes, packId \in LookupPackIds :
       LookupRenderer("prefix", prefix, packId)
  \/ \E spriteKey \in SpriteKeys, packId \in LookupPackIds :
       LookupRenderer("sprite", spriteKey, packId)
  \/ \E table \in {"prefix", "sprite"}, packId \in LookupPackIds : ListRenderers(table, packId)

NextRegistry == GlobalRegistryStep \/ PackRegistryStep \/ ReadRegistryStep \/ Return

SpecRegistry == Init /\ [][NextRegistry]_vars

\* The pack registry: hand-written and derived packs, ids free and taken,
\* with and without replace.
RegisteredPacks == {PackUser, PackTagged}
BasePackIds == {"sprites4", "tagged", "nowhere"}
DerivedPackIds == {"procedural-user", "sprites4", "tagged:parks"}
Replaces == {None, Some(TRUE)}
PackRegistered == \E pack \in RegisteredPacks, replace \in Replaces : RegisterSpritePack(pack, replace)
PackDerived ==
  \E basePackId \in BasePackIds, id \in DerivedPackIds, tileWidth \in {None, Some(64)},
     replace \in Replaces :
    registerProceduralSpritePack(basePackId, PackOptions(id, None, tileWidth, None), replace)
NextPacks == PackRegistered \/ PackDerived \/ registerProceduralUserAssets \/ Return

SpecPacks == Init /\ [][NextPacks]_vars

\* normalizeProceduralAssetsMode on every input.
NormalizeStep == \E value \in NormalizeInputs : Normalize(value)
NextNormalize == NormalizeStep \/ ModeReturn

SpecNormalize == Init /\ [][NextNormalize]_vars

(***************************************************************************)
(* Reading the last call and the cells of the sheet it drew                *)
(***************************************************************************)
IsGeneration ==
  call.op \in {"generateProceduralSpriteSheetForKind", "generateProceduralSpriteSheet"}
IsEnsure == call.op = "ensureSpriteSheetLoaded"
ReachedGenerator == IsGeneration \/ (IsEnsure /\ call.path = "generate")
DrewSheet ==
  ReachedGenerator /\ call.result.outcome = "sheet" /\ call.result.sheet.hasContext
CallCells ==
  IF DrewSheet
  THEN {call.result.sheet.cells[i] : i \in 1..Len(call.result.sheet.cells)}
  ELSE {}

PrefixOf(cell) == splitProceduralKey(cell.spriteKey).prefix
IsNamespaced(cell) == IsSome(PrefixOf(cell))

\* The values a trace took from the cell RNG, in order.
RECURSIVE AllRng(_)
AllRng(trace) ==
  IF trace = <<>> THEN <<>> ELSE Head(trace).rng \o AllRng(Tail(trace))

\* The part of a cell's trace after the clearRect and the renderer's call.
AfterRenderer(cell) ==
  SubSeq(cell.tile.trace, 2 + Len(cell.tile.offered), Len(cell.tile.trace))

\* The built-in drawing of the cell with no renderer registered.
BuiltinAlone(cell) ==
  BuiltinOps(cell.spriteKey, cell.variant, cell.tile.trace[1].x, cell.tile.trace[1].y,
             cell.tile.trace[1].w, cell.tile.trace[1].h, cell.rngSeed, 0)

\* History lookups: the renderer (table, packId, key) was last registered
\* with and not unregistered since, or undefined.
Registered(table, packId, key) ==
  IF \E e \in registered : e[1] = table /\ e[2] = packId /\ e[3] = key
  THEN (CHOOSE e \in registered : e[1] = table /\ e[2] = packId /\ e[3] = key)[4]
  ELSE Undef
RegisteredKeys(table, packId) ==
  {e[3] : e \in {f \in registered : f[1] = table /\ f[2] = packId}}
Range(seq) == {seq[i] : i \in 1..Len(seq)}
OfferedTo(cell, table) ==
  {o.renderer : o \in {p \in Range(cell.tile.offered) : p.table = table}}

(***************************************************************************)
(* C1: the renderers a namespaced cell is offered to                       *)
(***************************************************************************)
\* The lookups the cell of a sheet for pack packId would be offered to if
\* the pack's prefix renderer came first, then the global one.
PackThenGlobal(cell, packId) ==
  LET prefix == Value(PrefixOf(cell))
      scoped == ScopedGet(prefixRenderersByPack, packId, prefix)
      global == MapGet(prefixRenderers, prefix)
  IN (IF scoped = Undef THEN <<>>
      ELSE <<[table |-> "prefix", packId |-> Some(packId), renderer |-> scoped]>>)
     \o (IF global = Undef \/ Handled(scoped) THEN <<>>
         ELSE <<[table |-> "prefix", packId |-> None, renderer |-> global]>>)

\* C1: every namespaced cell of a sheet generated for pack P was offered
\* first to the prefix renderer registered for P, then (if that one declined
\* or is absent) to the global prefix renderer, and was drawn by the built-in
\* path only if neither handled it.
C1_PackPrefixThenGlobalThenBuiltin ==
  \A cell \in CallCells :
    IsNamespaced(cell) =>
      /\ cell.tile.offered = PackThenGlobal(cell, call.pack.id)
      /\ (cell.tile.handledBy = "builtin") =
           (\A o \in Range(PackThenGlobal(cell, call.pack.id)) : ~Handled(o.renderer))

\* A sheet for pack P holds a namespaced cell whose prefix has a renderer
\* registered for P that returns true, and the built-in path drew the cell.
C1_PackPrefixNeverOffered ==
  \E cell \in CallCells :
    /\ IsNamespaced(cell)
    /\ ScopedGet(prefixRenderersByPack, call.pack.id, Value(PrefixOf(cell))) = PaintRenderer
    /\ MapGet(prefixRenderers, Value(PrefixOf(cell))) = Undef
    /\ cell.tile.offered = <<>>
    /\ cell.tile.handledBy = "builtin"

(***************************************************************************)
(* C2: exact-key renderers                                                 *)
(***************************************************************************)
\* C2: every cell whose sprite key has an exact-key renderer, global or
\* registered for the generating pack, was offered to that renderer before
\* any prefix renderer and the built-in path, and if the renderer returned
\* true the built-in path drew nothing in the cell.
C2_ExactKeyBeforePrefixAndBuiltin ==
  \A cell \in CallCells :
    getProceduralSpriteRenderer(cell.spriteKey, Some(call.pack.id)) # Undef =>
      /\ cell.tile.offered # <<>>
      /\ cell.tile.offered[1].table = "sprite"
      /\ cell.tile.offered[1].renderer =
           getProceduralSpriteRenderer(cell.spriteKey, Some(call.pack.id))
      /\ (Handled(getProceduralSpriteRenderer(cell.spriteKey, Some(call.pack.id)))
            => cell.tile.handledBy # "builtin")

\* A sheet holds an un-prefixed cell whose key has an exact-key renderer that
\* returns true, and the built-in path drew the cell without offering it.
C2_ExactKeyNeverOffered ==
  \E cell \in CallCells :
    /\ ~IsNamespaced(cell)
    /\ getProceduralSpriteRenderer(cell.spriteKey, Some(call.pack.id)) = PaintRenderer
    /\ cell.tile.offered = <<>>
    /\ cell.tile.handledBy = "builtin"

(***************************************************************************)
(* C3: what a global prefix renderer's return value does                   *)
(***************************************************************************)
\* The global prefix renderer of a namespaced cell, or undefined.
GlobalPrefixRenderer(cell) ==
  IF IsNamespaced(cell) THEN MapGet(prefixRenderers, Value(PrefixOf(cell))) ELSE Undef

\* The cell holds nothing but the renderer's call on the cleared rectangle.
OnlyRendererDrew(cell, ext) ==
  /\ cell.tile.handledBy = ext
  /\ Len(cell.tile.trace) = 2
  /\ cell.tile.trace[1].fn = "clearRect"
  /\ cell.tile.trace[2].fn \in {"renderer:draw", "renderer:call"}
  /\ cell.tile.trace[2].detail = ext

\* C3 as stated: for a namespaced cell with a global prefix renderer, a
\* renderer that returns true leaves only its own drawing on the cleared
\* rectangle, and after a renderer that returns false or nothing the
\* built-in path draws exactly what it draws with no renderer registered.
C3_DeclineDrawsAsWithNoRenderer ==
  \A cell \in CallCells :
    GlobalPrefixRenderer(cell) # Undef =>
      IF RendererBehaviour(GlobalPrefixRenderer(cell)).ret = "true"
      THEN OnlyRendererDrew(cell, GlobalPrefixRenderer(cell))
      ELSE AfterRenderer(cell) = BuiltinAlone(cell)

\* C3, amended: a renderer that returns true leaves only its own drawing on
\* the cleared rectangle.  After a renderer that returns false or nothing
\* the built-in path runs in full in the same rectangle, on top of what the
\* renderer drew, and takes its RNG values from the cell RNG where the
\* renderer left it: the values of the whole cell are one stream from the
\* cell seed.  The built-in drawing equals the one with no renderer
\* registered when the renderer took no RNG value.
C3_DeclineContinuesCellRng ==
  \A cell \in CallCells :
    GlobalPrefixRenderer(cell) # Undef =>
      IF RendererBehaviour(GlobalPrefixRenderer(cell)).ret = "true"
      THEN OnlyRendererDrew(cell, GlobalPrefixRenderer(cell))
      ELSE /\ cell.tile.handledBy = "builtin"
           /\ cell.tile.trace[1].fn = "clearRect"
           /\ cell.tile.trace[2].detail = GlobalPrefixRenderer(cell)
           /\ AfterRenderer(cell) # <<>>
           /\ Head(AfterRenderer(cell)).fn = "shadow"
           /\ \A i \in 1..Len(AfterRenderer(cell)) :
                /\ AfterRenderer(cell)[i].x = cell.tile.trace[1].x
                /\ AfterRenderer(cell)[i].y = cell.tile.trace[1].y
                /\ AfterRenderer(cell)[i].w = cell.tile.trace[1].w
                /\ AfterRenderer(cell)[i].h = cell.tile.trace[1].h
           /\ AllRng(cell.tile.trace) =
                RngValues(cell.rngSeed, 0, Len(AllRng(cell.tile.trace)))
           /\ (RendererBehaviour(GlobalPrefixRenderer(cell)).rngCalls = 0
                 => AfterRenderer(cell) = BuiltinAlone(cell))

\* A namespaced cell whose global prefix renderer took an RNG value, drew
\* and returned nothing; the built-in path then drew it with the next value.
C3_DeclinedAfterTakingRng ==
  \E cell \in CallCells :
    /\ GlobalPrefixRenderer(cell) = PickyRenderer
    /\ cell.tile.handledBy = "builtin"
    /\ Len(AllRng(cell.tile.trace)) = 2
    /\ AllRng(AfterRenderer(cell)) # AllRng(BuiltinAlone(cell))

(***************************************************************************)
(* C4: registrations take effect                                           *)
(***************************************************************************)
\* The lookup API returns, for every key of every table, the renderer last
\* registered and not unregistered since (a lookup for a pack falls back to
\* the global table), and the list API returns exactly the keys that have one.
LookupAndListAgree ==
  /\ \A prefix \in Prefixes :
       /\ getProceduralPrefixRenderer(prefix, None) = Registered("prefix", "", prefix)
       /\ \A packId \in PackIds :
            getProceduralPrefixRenderer(prefix, Some(packId)) =
              IF Registered("prefix", packId, prefix) # Undef
              THEN Registered("prefix", packId, prefix)
              ELSE Registered("prefix", "", prefix)
  /\ \A spriteKey \in SpriteKeys :
       /\ getProceduralSpriteRenderer(spriteKey, None) = Registered("sprite", "", spriteKey)
       /\ \A packId \in PackIds :
            getProceduralSpriteRenderer(spriteKey, Some(packId)) =
              IF Registered("sprite", packId, spriteKey) # Undef
              THEN Registered("sprite", packId, spriteKey)
              ELSE Registered("sprite", "", spriteKey)
  /\ Range(listProceduralPrefixRenderers) = RegisteredKeys("prefix", "")
  /\ Range(listProceduralSpriteRenderers) = RegisteredKeys("sprite", "")
  /\ Len(listProceduralPrefixRenderers) = Cardinality(RegisteredKeys("prefix", ""))
  /\ Len(listProceduralSpriteRenderers) = Cardinality(RegisteredKeys("sprite", ""))
  /\ \A packId \in PackIds :
       /\ Range(listProceduralPrefixRenderersForPack(packId))
            = RegisteredKeys("prefix", packId)
       /\ Range(listProceduralSpriteRenderersForPack(packId))
            = RegisteredKeys("sprite", packId)

\* The renderers registered, in any of the four tables, for a cell of a
\* sheet of pack packId.
RegisteredFor(cell, packId) ==
  {e \in registered :
     /\ e[2] \in {"", packId}
     /\ \/ e[1] = "sprite" /\ e[3] = cell.spriteKey
        \/ e[1] = "prefix" /\ IsNamespaced(cell) /\ e[3] = Value(PrefixOf(cell))}

\* The renderer among those that the order of C1 and C2 puts first: exact
\* key before prefix, the pack's table before the global one.
FirstRegisteredFor(cell, packId) ==
  IF Registered("sprite", packId, cell.spriteKey) # Undef
    THEN <<"sprite", Registered("sprite", packId, cell.spriteKey)>>
  ELSE IF Registered("sprite", "", cell.spriteKey) # Undef
    THEN <<"sprite", Registered("sprite", "", cell.spriteKey)>>
  ELSE IF Registered("prefix", packId, Value(PrefixOf(cell))) # Undef
    THEN <<"prefix", Registered("prefix", packId, Value(PrefixOf(cell)))>>
  ELSE <<"prefix", Registered("prefix", "", Value(PrefixOf(cell)))>>

\* C4: after any sequence of register and unregister calls the lookup API
\* returns the renderer last registered and not unregistered since, the list
\* API returns exactly the keys that have a renderer, and the next sheet
\* generated offers each cell to the renderer registered for it, whichever
\* of the four tables holds it.
C4_RegisteredRendererLookedUpListedAndUsed ==
  /\ LookupAndListAgree
  /\ \A cell \in CallCells :
       RegisteredFor(cell, call.pack.id) # {} =>
         /\ cell.tile.offered # <<>>
         /\ <<cell.tile.offered[1].table, cell.tile.offered[1].renderer>>
              = FirstRegisteredFor(cell, call.pack.id)

\* A renderer was registered for a sprite key of one pack, the lookup for
\* that pack returns it, and the sheet generated next for the pack drew the
\* cell with the built-in path.
C4_RegisteredButUnused ==
  \E cell \in CallCells :
    /\ Registered("sprite", call.pack.id, cell.spriteKey) = PaintRenderer
    /\ getProceduralSpriteRenderer(cell.spriteKey, Some(call.pack.id)) = PaintRenderer
    /\ cell.spriteKey \in Range(listProceduralSpriteRenderersForPack(call.pack.id))
    /\ cell.tile.handledBy = "builtin"

(***************************************************************************)
(* C5: a cell-map kind the pack has no map for                             *)
(***************************************************************************)
MapForKind(pack, kind) ==
  CASE kind = "dense" -> pack.denseVariants
    [] kind = "modern" -> pack.modernVariants
    [] kind \in {"parks", "parksConstruction"} -> pack.parksBuildings
    [] kind = "farms" -> pack.farmsVariants
    [] kind = "shops" -> pack.shopsVariants
    [] kind = "stations" -> pack.stationsVariants
    [] OTHER -> None
LacksMap(pack, kind) == kind \in CellMapKinds /\ ~IsSome(MapForKind(pack, kind))

\* The source of the last call's sheet is in the image cache.
SourceCached ==
  /\ IsSome(getSpriteSheetSrc(call.pack, call.kind))
  /\ \/ isImageCached(imageCache, Value(getSpriteSheetSrc(call.pack, call.kind)), FALSE)
     \/ isImageCached(imageCache, Value(getSpriteSheetSrc(call.pack, call.kind)), TRUE)

\* C5: when ensureSpriteSheetLoaded calls generateProceduralSpriteSheetForKind
\* for dense, modern, parks, parksConstruction, farms, shops or stations and
\* the pack has no cell map for the kind, the generator returns null, throws
\* nothing and creates no canvas, in every environment, and the step leaves
\* the image cache as it was.
C5_MissingMapReturnsNull ==
  [][(call'.op = "ensureSpriteSheetLoaded" /\ call'.path = "generate"
        /\ LacksMap(call'.pack, call'.kind))
       => /\ call'.result.outcome = "null"
          /\ call'.result.error = ""
          /\ call'.result.surfaces = 0
          /\ imageCache' = imageCache]_vars

\* ensureSpriteSheetLoaded reached the generator with no `document`, for a
\* kind the pack has no map for, and got null.
C5_NullWithoutBrowser ==
  /\ IsEnsure /\ call.path = "generate"
  /\ LacksMap(call.pack, call.kind)
  /\ call.env = "noDocument"
  /\ call.result.outcome = "null"
  /\ ~SourceCached

(***************************************************************************)
(* C6, C7: which packs the entrypoints take for procedural                 *)
(***************************************************************************)
Sources(pack) ==
  {pack.src, pack.constructionSrc, pack.abandonedSrc, pack.denseSrc, pack.modernSrc,
   pack.parksSrc, pack.parksConstructionSrc, pack.farmsSrc, pack.shopsSrc,
   pack.stationsSrc}
HasTaggedSource(pack) ==
  \E src \in Sources(pack) : IsSome(src) /\ startsWith(Value(src), "procedural:")
\* Procedural by either signal: a descriptor, or tagged sources.
NonProcedural(pack) == ~IsSome(pack.procedural) /\ ~HasTaggedSource(pack)
TaggedOnly(pack) == ~IsSome(pack.procedural) /\ HasTaggedSource(pack)

\* C6: a generation entrypoint asked for the main, construction or abandoned
\* sheet of a non-procedural pack throws the configuration error and returns
\* no sheet.
C6_NonProceduralPackRefused ==
  (IsGeneration /\ call.kind \in GridKinds /\ NonProcedural(call.pack))
    => /\ call.result.outcome = "throw"
       /\ call.result.error = NotProceduralError(call.pack)

\* generateProceduralSpriteSheetForKind drew the main sheet of a file-backed
\* pack, with the default descriptor.
C6_FileBackedPackDrawn ==
  /\ call.op = "generateProceduralSpriteSheetForKind"
  /\ call.kind = "main"
  /\ NonProcedural(call.pack)
  /\ DrewSheet
  /\ call.result.sheet.width = DefaultProceduralConfig.tileWidth * call.pack.cols

\* What the entrypoint of the last call returns for another pack.
SameCallFor(pack) ==
  IF call.op = "generateProceduralSpriteSheet"
  THEN generateProceduralSpriteSheet(pack, call.kind, call.env)
  ELSE generateProceduralSpriteSheetForKind(pack, call.kind, call.env)

\* C7: for a pack with no descriptor whose sources are tagged `procedural:`
\* every generation entrypoint comes to what it comes to for the same pack
\* carrying the default descriptor.
C7_TaggedPackAsWithDefaultDescriptor ==
  (IsGeneration /\ TaggedOnly(call.pack))
    => call.result =
         SameCallFor([call.pack EXCEPT !.procedural = Some(DefaultProceduralConfig)])

\* generateProceduralSpriteSheet threw the configuration error for a tagged
\* pack in a browser, where it draws the pack carrying the default descriptor.
C7_TaggedPackRefused ==
  /\ call.op = "generateProceduralSpriteSheet"
  /\ TaggedOnly(call.pack)
  /\ call.env = "browser"
  /\ call.result.outcome = "throw"
  /\ SameCallFor([call.pack EXCEPT !.procedural = Some(DefaultProceduralConfig)]).outcome
       = "sheet"

(***************************************************************************)
(* C8: no drawing surface                                                  *)
(***************************************************************************)
\* C8: when ensureSpriteSheetLoaded calls the generator where no drawing
\* surface can be had (no `document`, or no 2D context) and the pack has
\* what the kind needs, the generator throws, returns no sheet, and nothing
\* is registered under the source.
C8_NoSurfaceFails ==
  (IsEnsure /\ call.path = "generate" /\ call.env # "browser"
     /\ ~LacksMap(call.pack, call.kind))
    => /\ call.result.outcome = "throw"
       /\ ~SourceCached

\* With no 2D context the generator returned the canvas it had created,
\* nothing drawn on it, and ensureSpriteSheetLoaded registered it.
C8_BlankSheetRegistered ==
  /\ IsEnsure /\ call.path = "generate"
  /\ call.env = "noContext"
  /\ call.result.outcome = "sheet"
  /\ ~call.result.sheet.hasContext
  /\ call.result.sheet.cells = <<>>
  /\ SourceCached

(***************************************************************************)
(* C9: the string hashed for a cell's RNG                                  *)
(***************************************************************************)
\* The global seed of the pack of the last call.
GlobalSeed ==
  IF IsSome(call.pack.procedural) /\ IsSome(Value(call.pack.procedural).seed)
  THEN Value(Value(call.pack.procedural).seed)
  ELSE 0
HasSalt(cell) == IsSome(cell.salt) /\ Value(cell.salt) # ""
SaltPart(cell) == IF HasSalt(cell) THEN ":" \o Value(cell.salt) ELSE ""
\* The string with every component the cell has.
AllComponents(cell) ==
  NumToString(GlobalSeed) \o ":" \o call.pack.id \o ":" \o call.kind \o ":"
    \o cell.variant \o ":" \o cell.spriteKey \o SaltPart(cell)
\* The string with the variant once, for the sheets of the ordered grid.
WithoutKind(cell) ==
  NumToString(GlobalSeed) \o ":" \o call.pack.id \o ":" \o cell.variant \o ":"
    \o cell.spriteKey
SeededWith(cell, string) ==
  /\ cell.seedString = string
  /\ cell.rngSeed = hashStringToSeed(string)
  /\ AllRng(cell.tile.trace) = RngValues(cell.rngSeed, 0, Len(AllRng(cell.tile.trace)))

\* C9 as stated: every cell of every sheet kind is seeded with the hash of
\* `<globalSeed>:<packId>:<kind>:<variant>:<spriteKey>:<salt>`, the salt
\* left out only where the cell has none.
C9_SeedStringHasAllComponents ==
  \A cell \in CallCells : SeededWith(cell, AllComponents(cell))

\* C9: a cell of the main, construction or abandoned sheet is seeded with
\* the hash of `<globalSeed>:<packId>:<variant>:<spriteKey>`; a cell of any
\* other kind with the hash of
\* `<globalSeed>:<packId>:<kind>:<variant>:<spriteKey>`, followed by
\* `:<salt>` when the cell has a salt; and the values the cell's drawing
\* takes are the first values of the generator so seeded.
C9_SeedStringPerPath ==
  \A cell \in CallCells :
    IF call.kind \in GridKinds
    THEN /\ cell.variant = call.kind
         /\ ~HasSalt(cell)
         /\ SeededWith(cell, WithoutKind(cell))
    ELSE /\ cell.variant = (IF call.kind = "parksConstruction" THEN "construction" ELSE "main")
         /\ SeededWith(cell, AllComponents(cell))

\* A sheet of the ordered grid was drawn with a cell that took values from
\* its RNG.
C9_GridCellSeeded ==
  /\ IsGeneration /\ call.kind \in GridKinds
  /\ \E cell \in CallCells : AllRng(cell.tile.trace) # <<>>

(***************************************************************************)
(* C10: two runs                                                           *)
(***************************************************************************)
\* Two maps hold the same entries, whatever the order they were set in.
SameMap(a, b) == Range(a) = Range(b)
SameRoot(a, b) ==
  {<<a[i][1], Range(a[i][2])>> : i \in 1..Len(a)}
    = {<<b[i][1], Range(b[i][2])>> : i \in 1..Len(b)}
SameContents(r1, r2) ==
  /\ SameMap(r1.prefixRenderers, r2.prefixRenderers)
  /\ SameMap(r1.spriteKeyRenderers, r2.spriteKeyRenderers)
  /\ SameRoot(r1.prefixRenderersByPack, r2.prefixRenderersByPack)
  /\ SameRoot(r1.spriteKeyRenderersByPack, r2.spriteKeyRenderersByPack)
SameRun(r1, r2) ==
  r1.pack = r2.pack /\ r1.kind = r2.kind /\ r1.env = r2.env /\ SameContents(r1, r2)

Min(a, b) == IF a < b THEN a ELSE b

Box(x0, y0, x1, y1) == [x0 |-> x0, y0 |-> y0, x1 |-> x1, y1 |-> y1]
\* The rectangle (x, y, w, h) a drawing call was given, as a pixel box.
CellBox(op) == Box(op.x, op.y, op.x + op.w, op.y + op.h)

\* drawConstructionOverlay strokes a line from (x + i, y + h/4) to
\* (x + i + w, y + 0.9h) for i = -w, -w + step, ... while i < 2w; nothing
\* clips it to the cell.
StripeStep(w) == Max(12, w \div 14)
LastStripe(w) == StripeStep(w) * ((3 * w - 1) \div StripeStep(w)) - w
ConstructionBox(op) ==
  Box(op.x - op.w, op.y + op.h \div 4,
      op.x + LastStripe(op.w) + op.w + 1, op.y + (9 * op.h) \div 10 + 1)

\* drawAbandonedOverlay fills the cell, then strokes six streaks from
\* (sx, sy) = (x + r1*w, y + r2*h) to (sx + (r3 - 0.5)*0.6w, sy + r4*0.4h),
\* r1..r4 the next four RNG values (taken here to 2^-16).  Offsets from
\* (x, y), in pixels.
StreakStartX(op, k) == (op.w * op.rng[4 * k - 3][1]) \div W16
StreakEndX(op, k) ==
  (op.w * (10 * op.rng[4 * k - 3][1] + 6 * op.rng[4 * k - 1][1] - 3 * W16)) \div (10 * W16)
StreakEndY(op, k) ==
  (op.h * (10 * op.rng[4 * k - 2][1] + 4 * op.rng[4 * k][1])) \div (10 * W16)
RECURSIVE StreakBox(_, _, _)
StreakBox(op, k, box) ==
  IF 4 * k > Len(op.rng) THEN box
  ELSE StreakBox(op, k + 1,
         Box(Min(box.x0, op.x + Min(StreakStartX(op, k), StreakEndX(op, k))), box.y0,
             Max(box.x1, op.x + Max(StreakStartX(op, k), StreakEndX(op, k)) + 1),
             Max(box.y1, op.y + StreakEndY(op, k) + 1)))

\* The pixels a drawing call can touch, for the overlap of cells: the
\* overlays by their reach, every other call by the rectangle it was given.
PaintBox(op) ==
  IF op.fn = "drawConstructionOverlay" THEN ConstructionBox(op)
  ELSE IF op.fn = "drawAbandonedOverlay" THEN StreakBox(op, 1, CellBox(op))
  ELSE CellBox(op)

Overlaps(a, b) == a.x0 < b.x1 /\ b.x0 < a.x1 /\ a.y0 < b.y1 /\ b.y0 < a.y1

\* The cells drawn after cell i of a sheet that touch the rectangle of
\* cell i: the canvas is shared, and only the cell's own clearRect, at the
\* start of its drawing, wipes it.
PaintedOverBy(sheet, i) ==
  {j \in (i + 1)..Len(sheet.cells) :
     \E k \in 1..Len(sheet.cells[j].tile.trace) :
       Overlaps(PaintBox(sheet.cells[j].tile.trace[k]),
                CellBox(sheet.cells[i].tile.trace[1]))}

\* C11: the final content of every cell's rectangle is the cell's own
\* drawing, made with its own RNG started from its seed: no other cell of
\* the sheet leaves anything in it, whatever cells the sheet holds and in
\* whatever order they are drawn.
C11_CellHoldsOnlyItsOwnDrawing ==
  DrewSheet =>
    \A i \in 1..Len(call.result.sheet.cells) :
      /\ PaintedOverBy(call.result.sheet, i) = {}
      /\ AllRng(call.result.sheet.cells[i].tile.trace)
           = RngValues(call.result.sheet.cells[i].rngSeed, 0,
                       Len(AllRng(call.result.sheet.cells[i].tile.trace)))

\* A construction sheet was drawn in which the stripes of a later cell lie
\* over an earlier cell of another key, in the next column.
C11_StripesOverNeighbour ==
  /\ DrewSheet /\ call.kind = "construction"
  /\ \E i \in 1..Len(call.result.sheet.cells) :
       \E j \in PaintedOverBy(call.result.sheet, i) :
         /\ call.result.sheet.cells[j].spriteKey # call.result.sheet.cells[i].spriteKey
         /\ call.result.sheet.cells[j].col = call.result.sheet.cells[i].col + 1
         /\ call.result.sheet.cells[j].row = call.result.sheet.cells[i].row

(***************************************************************************)
(* C12: what a change of the global seed changes                           *)
(***************************************************************************)
OtherSeed == 7
\* The pack with another global seed and nothing else changed.
Reseeded(pack, seed) ==
  [pack EXCEPT !.procedural = Some([getProceduralConfig(pack) EXCEPT !.seed = Some(seed)])]
\* The drawing calls of the cells of key spriteKey in a result, in order.
TracesOf(result, spriteKey) ==
  IF result.outcome = "sheet"
  THEN [i \in {j \in 1..Len(result.sheet.cells) : result.sheet.cells[j].spriteKey = spriteKey}
          |-> result.sheet.cells[i].tile.trace]
  ELSE <<>>
HasHouseSmall ==
  \E cell \in CallCells : cell.spriteKey = "house_small"

\* C12: when the main sheet of a pack whose grid holds `house_small` is
\* drawn, the `house_small` cell takes a value from its RNG, and the same
\* generation under another global seed draws that cell differently.
C12_SeedChangesHouseSmall ==
  (IsGeneration /\ call.kind = "main" /\ HasHouseSmall /\ GlobalSeed # OtherSeed)
    => /\ \A cell \in CallCells :
            cell.spriteKey = "house_small" => AllRng(cell.tile.trace) # <<>>
       /\ TracesOf(SameCallFor(Reseeded(call.pack, OtherSeed)), "house_small")
            # TracesOf(call.result, "house_small")

\* A main sheet was drawn whose `house_small` cell took no RNG value and is
\* drawn by the same calls under another global seed, the cell's RNG being
\* seeded differently there.
C12_HouseSmallSeedBlind ==
  /\ IsGeneration /\ call.kind = "main" /\ HasHouseSmall /\ GlobalSeed # OtherSeed
  /\ \A cell \in CallCells :
       cell.spriteKey = "house_small"
         => /\ AllRng(cell.tile.trace) = <<>>
            /\ cell.rngSeed
                 # hashStringToSeed(GridSeedString(OtherSeed, call.pack, "main", "house_small"))
  /\ TracesOf(SameCallFor(Reseeded(call.pack, OtherSeed)), "house_small")
       = TracesOf(call.result, "house_small")

(***************************************************************************)
(* C13: where the ordered grid puts a key                                  *)
(***************************************************************************)
\* (col, row) of each cell of a result, in drawing order.
PositionsOf(result) ==
  IF result.outcome = "sheet"
  THEN [i \in 1..Len(result.sheet.cells) |->
          <<result.sheet.cells[i].col, result.sheet.cells[i].row>>]
  ELSE <<>>
\* The number of keys of the pack of the last call that have a cell.
KeysWithCell ==
  Min(Len(call.pack.spriteOrder), call.pack.cols * call.pack.rows)

\* C13: on a main, construction or abandoned sheet the key spriteOrder[i],
\* i < cols*rows, is drawn as the (i+1)-th cell, at
\* (i mod cols, floor(i / cols)) under the row-major layout and at
\* (floor(i / rows), i mod rows) under the column-major one, on the
\* rectangle of that position; two such keys never share a cell; and the
\* main sheet of the pack has the same positions.
C13_GridPositionByLayout ==
  (IsGeneration /\ call.kind \in GridKinds /\ DrewSheet)
    => /\ Len(call.result.sheet.cells) >= KeysWithCell
       /\ \A i \in 0..(KeysWithCell - 1) :
            LET cell == call.result.sheet.cells[i + 1]
            IN /\ cell.spriteKey = call.pack.spriteOrder[i + 1]
               /\ <<cell.col, cell.row>>
                    = (IF call.pack.layout = "column"
                       THEN <<i \div call.pack.rows, i % call.pack.rows>>
                       ELSE <<i % call.pack.cols, i \div call.pack.cols>>)
               /\ cell.tile.trace[1].fn = "clearRect"
               /\ cell.tile.trace[1].x = cell.col * cell.tile.trace[1].w
               /\ cell.tile.trace[1].y = cell.row * cell.tile.trace[1].h
       /\ \A i, j \in 1..KeysWithCell :
            i # j => PositionsOf(call.result)[i] # PositionsOf(call.result)[j]
       /\ PositionsOf(call.result)
            = PositionsOf(generateProceduralSpriteSheetForKind(call.pack, "main", call.env))

\* A construction sheet of a column-major pack with two columns and two
\* rows was drawn: its third key sits in the second column, first row.
C13_ColumnMajorThirdKey ==
  /\ IsGeneration /\ call.kind = "construction" /\ DrewSheet
  /\ call.pack.layout = "column" /\ call.pack.cols = 2 /\ call.pack.rows = 2
  /\ Len(call.result.sheet.cells) >= 3
  /\ call.result.sheet.cells[3].col = 1 /\ call.result.sheet.cells[3].row = 0

(***************************************************************************)
(* C14: keys and positions off the grid                                    *)
(***************************************************************************)
KindPrefix(kind) ==
  CASE kind = "dense" -> "dense"
    [] kind = "modern" -> "modern"
    [] kind \in {"parks", "parksConstruction"} -> "park"
    [] kind = "farms" -> "farm"
    [] kind = "shops" -> "shop"
    [] kind = "stations" -> "station"
    [] OTHER -> ""
\* The grid size generation uses for a kind of a pack.
KindCols(pack, kind) ==
  CASE kind \in {"parks", "parksConstruction"} -> OrElse(pack.parksCols, pack.cols)
    [] kind = "farms" -> OrElse(pack.farmsCols, pack.cols)
    [] kind = "shops" -> OrElse(pack.shopsCols, pack.cols)
    [] kind = "stations" -> OrElse(pack.stationsCols, pack.cols)
    [] OTHER -> pack.cols
KindRows(pack, kind) ==
  CASE kind \in {"parks", "parksConstruction"} -> OrElse(pack.parksRows, pack.rows)
    [] kind = "farms" -> OrElse(pack.farmsRows, pack.rows)
    [] kind = "shops" -> OrElse(pack.shopsRows, pack.rows)
    [] kind = "stations" -> OrElse(pack.stationsRows, pack.rows)
    [] OTHER -> pack.rows
\* <<spriteKey, col, row>> of every entry the pack asks the kind to draw.
Requested(pack, kind) ==
  IF kind \in GridKinds
    THEN {<<pack.spriteOrder[i + 1],
            IF pack.layout = "column" THEN i \div pack.rows ELSE i % pack.cols,
            IF pack.layout = "column" THEN i % pack.rows ELSE i \div pack.cols>>
            : i \in 0..(Len(pack.spriteOrder) - 1)}
  ELSE IF ~IsSome(MapForKind(pack, kind)) THEN {}
  ELSE IF kind \in {"parks", "parksConstruction"}
    THEN {<<KindPrefix(kind) \o ":" \o e[1], e[2].col, e[2].row>>
            : e \in Range(Value(MapForKind(pack, kind)))}
  ELSE UNION {{<<KindPrefix(kind) \o ":" \o e[1], pos.col, pos.row>> : pos \in Range(e[2])}
                : e \in Range(Value(MapForKind(pack, kind)))}
OnGrid(entry, pack, kind) ==
  /\ 0 <= entry[2] /\ entry[2] < KindCols(pack, kind)
  /\ 0 <= entry[3] /\ entry[3] < KindRows(pack, kind)
HasOffGrid(pack, kind) == \E entry \in Requested(pack, kind) : ~OnGrid(entry, pack, kind)
Drawn(result) ==
  {<<result.sheet.cells[i].spriteKey, result.sheet.cells[i].col, result.sheet.cells[i].row>>
     : i \in 1..Len(result.sheet.cells)}

\* C14: with a drawing surface, generation of a kind the pack has the keys
\* or the map for (by generateProceduralSpriteSheetForKind, or for a pack
\* with a descriptor) returns a sheet and throws nothing, whatever lies off
\* the grid; the cells drawn are exactly the requested keys and positions that
\* are on the grid, each once, at its own position and inside the sheet;
\* what is off the grid is drawn nowhere.
C14_OffGridSkipped ==
  (IsGeneration /\ call.env = "browser" /\ ~LacksMap(call.pack, call.kind)
     /\ (call.op = "generateProceduralSpriteSheetForKind" \/ isProceduralSpritePack(call.pack)))
    => /\ call.result.outcome = "sheet"
       /\ call.result.error = ""
       /\ Drawn(call.result)
            = {entry \in Requested(call.pack, call.kind) : OnGrid(entry, call.pack, call.kind)}
       /\ \A i \in 1..Len(call.result.sheet.cells) :
            LET clear == call.result.sheet.cells[i].tile.trace[1]
            IN /\ clear.x = call.result.sheet.cells[i].col * clear.w
               /\ clear.y = call.result.sheet.cells[i].row * clear.h
               /\ 0 <= clear.x /\ clear.x + clear.w <= call.result.sheet.width
               /\ 0 <= clear.y /\ clear.y + clear.h <= call.result.sheet.height
       /\ \A i, j \in 1..Len(call.result.sheet.cells) :
            (i # j /\ call.kind \in GridKinds)
              => PositionsOf(call.result)[i] # PositionsOf(call.result)[j]

\* A sheet was drawn for a pack that asks for something off the grid, with
\* fewer cells than the pack asked for and at least one drawn.
C14_DrawnDespiteOffGrid ==
  /\ IsGeneration /\ DrewSheet
  /\ HasOffGrid(call.pack, call.kind)
  /\ Drawn(call.result) # {}
  /\ Cardinality(Drawn(call.result)) < Cardinality(Requested(call.pack, call.kind))

(***************************************************************************)
(* C15: the size of a sheet                                                *)
(***************************************************************************)
\* The descriptor generation works from: the pack's, or the default.
Descriptor(pack) ==
  IF IsSome(pack.procedural) THEN Value(pack.procedural) ELSE DefaultProceduralConfig
YieldsSheet == IsGeneration /\ call.result.outcome = "sheet"

\* C15 as stated: a sheet is tileWidth*cols wide and tileHeight*rows high,
\* tileWidth and tileHeight the values of the descriptor.
C15_SheetSizeFromDescriptor ==
  YieldsSheet
    => /\ call.result.sheet.width
            = Descriptor(call.pack).tileWidth * KindCols(call.pack, call.kind)
       /\ call.result.sheet.height
            = Descriptor(call.pack).tileHeight * KindRows(call.pack, call.kind)

\* C15: a sheet is max(16, tileWidth)*cols wide and max(16, tileHeight)*rows
\* high, tileWidth and tileHeight the values of the pack's descriptor
\* (256 and 213 when it has none) and (cols, rows) the grid size of the
\* kind when the pack defines one, the pack's otherwise; every cell is
\* drawn on a rectangle of max(16, tileWidth) by max(16, tileHeight).
C15_SheetSizeWithTileFloor ==
  YieldsSheet
    => LET tileW == IF Descriptor(call.pack).tileWidth < 16 THEN 16
                    ELSE Descriptor(call.pack).tileWidth
           tileH == IF Descriptor(call.pack).tileHeight < 16 THEN 16
                    ELSE Descriptor(call.pack).tileHeight
       IN /\ call.result.sheet.width = tileW * KindCols(call.pack, call.kind)
          /\ call.result.sheet.height = tileH * KindRows(call.pack, call.kind)
          /\ \A i \in 1..Len(call.result.sheet.cells) :
               /\ call.result.sheet.cells[i].tile.trace[1].w = tileW
               /\ call.result.sheet.cells[i].tile.trace[1].h = tileH

\* A sheet came back for a pack whose descriptor has tiles under 16 px,
\* with 16 px tiles.
C15_SmallTilesRaised ==
  /\ YieldsSheet /\ DrewSheet
  /\ Descriptor(call.pack).tileWidth < 16 /\ Descriptor(call.pack).tileHeight < 16
  /\ call.result.sheet.width = 16 * KindCols(call.pack, call.kind)
  /\ call.result.sheet.height = 16 * KindRows(call.pack, call.kind)
  /\ call.result.sheet.cells # <<>>

(***************************************************************************)
(* C16: a cached sheet is not generated again                              *)
(***************************************************************************)
\* ensureSpriteSheetLoaded(pack, kind) takes the pack for procedural.
TreatedAsProcedural(pack, kind) ==
  /\ IsSome(getSpriteSheetSrc(pack, kind))
  /\ Value(getSpriteSheetSrc(pack, kind)) # ""
  /\ \/ IsSome(pack.procedural)
     \/ startsWith(Value(getSpriteSheetSrc(pack, kind)), "procedural:")
CachedIn(cache, src) == isImageCached(cache, src, FALSE) \/ isImageCached(cache, src, TRUE)
\* Every entry of cache a is in cache b, unchanged.
KeptIn(a, b) ==
  \A i \in 1..Len(a) : MapHas(b, a[i][1]) /\ MapGet(b, a[i][1]) = a[i][2]

\* C16: every ensureSpriteSheetLoaded call for a pack taken for procedural
\* runs to its end in one step.  Made when the raw or the filtered key of
\* the source is cached, it calls no generator and leaves the cache as it
\* is.  It registers a sheet only when neither key was cached, and then
\* both keys hold that sheet.  No call changes or removes an entry of the
\* cache.  So between two clears a source is generated and registered at
\* most once.
C16_CachedSheetNotRegenerated ==
  [][(call'.op = "ensureSpriteSheetLoaded" /\ TreatedAsProcedural(call'.pack, call'.kind))
       => LET src == Value(getSpriteSheetSrc(call'.pack, call'.kind))
          IN /\ CachedIn(imageCache, src)
                  => /\ call'.path = "cached"
                     /\ call'.result = NotCalled
                     /\ imageCache' = imageCache
             /\ imageCache' # imageCache
                  => /\ ~CachedIn(imageCache, src)
                     /\ call'.path = "generate" /\ call'.result.outcome = "sheet"
                     /\ MapGet(imageCache', <<src, FALSE>>) = GeneratedImage(call'.result.sheet)
                     /\ MapGet(imageCache', <<src, TRUE>>) = GeneratedImage(call'.result.sheet)
             /\ KeptIn(imageCache, imageCache')]_vars

\* A second call for a source whose sheet an earlier call generated and
\* registered: it found the source cached and called no generator.
C16_SecondCallShortCircuits ==
  /\ IsEnsure /\ TreatedAsProcedural(call.pack, call.kind)
  /\ call.path = "cached" /\ call.result = NotCalled
  /\ MapGet(imageCache, <<Value(getSpriteSheetSrc(call.pack, call.kind)), TRUE>>).origin
       = "generated"

(***************************************************************************)
(* C17: the precedence of the asset mode                                   *)
(***************************************************************************)
Resolved == mode.op = "getProceduralAssetsMode"
StorageReadable == platform.window /\ platform.storage # "throws"
\* The build-time value, or `off`.
BuildTimeOrOff ==
  IF IsSome(normalizeProceduralAssetsMode(platform.NEXT_PUBLIC_PROCEDURAL_ASSETS_MODE))
    THEN Value(normalizeProceduralAssetsMode(platform.NEXT_PUBLIC_PROCEDURAL_ASSETS_MODE))
  ELSE IF IsSome(normalizeProceduralAssetsMode(platform.NEXT_PUBLIC_PROCEDURAL_ASSETS))
    THEN Value(normalizeProceduralAssetsMode(platform.NEXT_PUBLIC_PROCEDURAL_ASSETS))
  ELSE "off"
AfterSet ==
  Resolved /\ mode.after # <<>>
    /\ mode.after[1] \in {"setProceduralAssetsModeOverride", "setProceduralAssetsMode"}
AfterClear ==
  Resolved /\ mode.after # <<>> /\ mode.after[1] = "clearProceduralAssetsModeOverride"

\* C17 as stated: the mode is the stored preference if it normalizes, else
\* the build-time value or `off`; right after
\* setProceduralAssetsModeOverride(m) it is m, and right after
\* clearProceduralAssetsModeOverride it is the build-time value or `off`.
C17_StoredThenBuildTimeThenOff ==
  /\ Resolved
       => mode.value = (IF IsSome(normalizeProceduralAssetsMode(localStorage))
                        THEN normalizeProceduralAssetsMode(localStorage)
                        ELSE Some(BuildTimeOrOff))
  /\ AfterSet => mode.value = Some(mode.after[2].text)
  /\ AfterClear => mode.value = Some(BuildTimeOrOff)

\* C17: getProceduralAssetsMode() takes no override of its own.  The mode
\* is the stored preference if there is a window, reading the storage does
\* not throw and the item normalizes to a mode; else
\* NEXT_PUBLIC_PROCEDURAL_ASSETS_MODE if it normalizes; else
\* NEXT_PUBLIC_PROCEDURAL_ASSETS if it normalizes; else `off`.  Right after
\* setProceduralAssetsModeOverride(m) it is m when there is a window and the
\* storage works; right after clearProceduralAssetsModeOverride it is the
\* build-time value or `off` when the storage can be read or there is no
\* window; where the storage cannot be written or read, set and clear
\* change nothing.
C17_StoredWhereReadableThenBuildTime ==
  /\ Resolved
       => mode.value = (IF StorageReadable /\ IsSome(normalizeProceduralAssetsMode(localStorage))
                        THEN normalizeProceduralAssetsMode(localStorage)
                        ELSE Some(BuildTimeOrOff))
  /\ (AfterSet /\ platform.window /\ platform.storage = "works")
       => mode.value = Some(mode.after[2].text)
  /\ (AfterSet /\ ~(platform.window /\ platform.storage = "works") /\ localStorage = JsNull)
       => mode.value = Some(BuildTimeOrOff)
  /\ (AfterClear /\ (StorageReadable \/ ~platform.window))
       => mode.value = Some(BuildTimeOrOff)

\* The mode was asked for right after setProceduralAssetsModeOverride
\* ('force') on a platform without a window: it is not `force` but `off`,
\* from the build-time variables or by default.
C17_OverrideLostWithoutWindow ==
  /\ AfterSet /\ mode.after[2].text = "force"
  /\ ~platform.window
  /\ mode.value = Some("off")

(***************************************************************************)
(* C18: normalizeProceduralAssetsMode                                      *)
(***************************************************************************)
Normalized == mode.op = "normalizeProceduralAssetsMode"

\* C18: normalizeProceduralAssetsMode gives `off` for off, 0, false and
\* disabled, `fallback` for fallback and auto, `force` for force, 1, true,
\* on and always, in any casing and between any white space; null for
\* every other string and for every value that is no string; and a mode it
\* gives is normalized to itself.
C18_AliasesAndNothingElse ==
  Normalized
    => /\ mode.value
            = (IF mode.input.type # "string" THEN None
               ELSE IF mode.input.text \in Spellings(OffAliases) THEN Some("off")
               ELSE IF mode.input.text \in Spellings(FallbackAliases) THEN Some("fallback")
               ELSE IF mode.input.text \in Spellings(ForceAliases) THEN Some("force")
               ELSE None)
       /\ IsSome(mode.value)
            => normalizeProceduralAssetsMode(JsString(Value(mode.value))) = mode.value

\* `ALWAYS` between a tab and a space and line feed was normalized to
\* `force`.
C18_PaddedCapitalAlias ==
  /\ Normalized
  /\ mode.input = JsString("\tALWAYS \n")
  /\ mode.value = Some("force")

(***************************************************************************)
(* C19, C20: the provider and the asset mode                               *)
(***************************************************************************)
ResolvedMode == getProceduralAssetsMode(localStorage, platform)
\* The last call was ensureSpriteSheetLoaded for a file-backed sheet: no
\* descriptor, and an image file as source.
FileBackedCall ==
  /\ IsEnsure
  /\ ~isProceduralSpritePack(call.pack)
  /\ IsSome(getSpriteSheetSrc(call.pack, call.kind))
  /\ ~startsWith(Value(getSpriteSheetSrc(call.pack, call.kind)), "procedural:")
LoaderCalled == call.path \in {"load", "loadRejected"}
\* The cache holds a generated sheet under the call's source.
GeneratedRegistered ==
  \E i \in 1..Len(imageCache) :
    /\ imageCache[i][1][1] = Value(getSpriteSheetSrc(call.pack, call.kind))
    /\ imageCache[i][2].origin = "generated"

\* C19: under mode `force`, ensureSpriteSheetLoaded for a file-backed pack
\* does not call the file loader, and generates and registers the sheet if
\* the pack supports the kind; under mode `off` it calls the file loader.
C19_ForceGeneratesOffLoads ==
  FileBackedCall
    => /\ ResolvedMode = "force"
            => /\ ~LoaderCalled
               /\ ~LacksMap(call.pack, call.kind) => GeneratedRegistered
       /\ ResolvedMode = "off" => LoaderCalled

\* Under mode `force` the provider loaded the dense image file of a
\* file-backed pack and cached it as a file image.
C19_ForceStillLoadsFile ==
  /\ FileBackedCall /\ call.kind = "dense"
  /\ ResolvedMode = "force"
  /\ call.path = "load"
  /\ \E i \in 1..Len(imageCache) :
       imageCache[i] = <<<<"/assets/dense.webp", TRUE>>, FileImage>>

\* The load of the call's image file failed; the failure reached the caller.
LoadFailed == FileBackedCall /\ call.path = "loadRejected"
Completed == call.path # "loadRejected"

\* C20: when the load of a file-backed sheet fails in
\* ensureSpriteSheetLoaded, under mode `fallback` with a pack that supports
\* the kind the call completes without error, the sheet generated and
\* registered; under mode `fallback` with a pack that lacks the kind's cell
\* map, and under mode `off`, the failure reaches the caller and nothing is
\* registered.
C20_FallbackRecoversLoadFailure ==
  LoadFailed
    => IF ResolvedMode = "fallback" /\ ~LacksMap(call.pack, call.kind)
       THEN Completed /\ GeneratedRegistered
       ELSE ResolvedMode \in {"fallback", "off"} => ~Completed /\ ~SourceCached

\* Under mode `fallback` the load of the dense image of a file-backed pack
\* that has a dense cell map failed: the failure reached the caller and the
\* cache is empty.
C20_FallbackFailurePropagates ==
  /\ LoadFailed /\ call.kind = "dense"
  /\ ~LacksMap(call.pack, call.kind)
  /\ ResolvedMode = "fallback"
  /\ ~Completed
  /\ imageCache = <<>>

(***************************************************************************)
(* C21: drawing stays inside the cell                                      *)
(***************************************************************************)
Inside(a, b) == b.x0 <= a.x0 /\ a.x1 <= b.x1 /\ b.y0 <= a.y0 /\ a.y1 <= b.y1

\* drawIsoPrism: the base diamond around (x + w/2, y + 0.88h) reaches
\* 0.065w(sizeX + sizeY) to each side and 0.0325w(sizeX + sizeY) up and
\* down, and the top face is lifted by 0.18 * h * height.  In pixels, the
\* far edges rounded towards the inside.
PrismBox(op, style) ==
  LET size == (style.footprintX + style.footprintY) \div 100   \* in 1/100
      lift == 18 * op.h * (style.height \div 100)              \* in 1/10000 px
  IN Box(op.x + (op.w * (50000 - 65 * size) + 99999) \div 100000,
         op.y + (8800 * op.h - (325 * op.w * size) \div 100 - lift + 9999) \div 10000,
         op.x + (op.w * (50000 + 65 * size)) \div 100000,
         op.y + (8800 * op.h + (325 * op.w * size) \div 100) \div 10000)

\* drawUtilityExtras for power_plant: a 10 x 40 px stack standing on the
\* middle of the back edge of the base, (x + w/2 + 0.065w*sizeY,
\* y + 0.88h - 0.0325w*sizeY).
SmokestackBox(op, style) ==
  LET bx == op.x + (op.w * (50000 + 65 * (style.footprintY \div 100))) \div 100000
      by == op.y + (8800 * op.h - (325 * op.w * (style.footprintY \div 100)) \div 100)
                     \div 10000
  IN Box(bx - 5, by - 40, bx + 5, by)

\* drawPark draws each tree under ctx.translate(tx - w/2, ty - h/2) with
\* tx = x + w(0.35 + 0.3 r1), ty = y + h(0.55 + 0.1 r2), and hands drawTree
\* the cell's own (x, y): the trunk, 0.07w wide and 0.22h high on
\* (x + w/2, y + 0.88h), lands at the sum of both.
TranslateX(op) == op.x + (op.w * (30 * op.rng[1][1] - 15 * W16)) \div (100 * W16)
TranslateY(op) == op.y + (op.h * (5 * W16 + 10 * op.rng[2][1])) \div (100 * W16)
TranslatedTrunkBox(op) ==
  Box(TranslateX(op) + op.x + (465 * op.w + 999) \div 1000,
      TranslateY(op) + op.y + (66 * op.h + 99) \div 100,
      TranslateX(op) + op.x + (535 * op.w) \div 1000,
      TranslateY(op) + op.y + (88 * op.h) \div 100)

\* What a drawing call of a cell of key spriteKey reaches.
DrawnBox(spriteKey, op) ==
  IF op.fn = "drawIsoPrism" THEN PrismBox(op, styleForSpriteKey(spriteKey))
  ELSE IF op.fn = "drawUtilityExtras" /\ op.detail = "power_plant"
    THEN SmokestackBox(op, styleForSpriteKey(spriteKey))
  ELSE IF op.fn = "drawTree" /\ op.detail = "translated" THEN TranslatedTrunkBox(op)
  ELSE PaintBox(op)

\* The drawing calls of a cell that reach past the cell's rectangle.
ReachingOut(cell) ==
  {k \in 2..Len(cell.tile.trace) :
     ~Inside(DrawnBox(cell.spriteKey, cell.tile.trace[k]), CellBox(cell.tile.trace[1]))}

\* C21: every cell the built-in path draws starts with the clearRect of
\* its rectangle (col * tileW, row * tileH, tileW, tileH), and no drawing
\* call after it reaches past that rectangle, in any variant and for any
\* key.
C21_DrawingStaysInCell ==
  \A cell \in CallCells :
    cell.tile.handledBy = "builtin"
      => /\ cell.tile.trace[1].fn = "clearRect"
         /\ CellBox(cell.tile.trace[1])
              = Box(cell.col * cell.tile.trace[1].w, cell.row * cell.tile.trace[1].h,
                    (cell.col + 1) * cell.tile.trace[1].w,
                    (cell.row + 1) * cell.tile.trace[1].h)
         /\ ReachingOut(cell) = {}

\* A parks sheet was drawn (variant main, no overlay) in which the trunk of
\* a translated tree of the generic park cell in the second row lies wholly
\* below the cell's rectangle.
C21_ParkTreeBelowCell ==
  /\ DrewSheet /\ call.kind = "parks"
  /\ \E cell \in CallCells :
       /\ cell.row = 1
       /\ cell.tile.trace[1].fn = "clearRect"
       /\ \E k \in ReachingOut(cell) :
            /\ cell.tile.trace[k].fn = "drawTree"
            /\ TranslatedTrunkBox(cell.tile.trace[k]).y0
                 >= CellBox(cell.tile.trace[1]).y1

(***************************************************************************)
(* C22: the status overlays                                                *)
(***************************************************************************)
LastOp(cell) == cell.tile.trace[Len(cell.tile.trace)]
OverlayOf(variant) ==
  IF variant = "construction" THEN "drawConstructionOverlay" ELSE "drawAbandonedOverlay"
OverlaysIn(cell) ==
  {k \in 1..Len(cell.tile.trace) :
     cell.tile.trace[k].fn \in {"drawConstructionOverlay", "drawAbandonedOverlay"}}

\* C22: every cell the built-in path draws with variant construction or
\* abandoned (the parksConstruction sheet included) ends with the overlay
\* of its variant, drawn once, whatever the shape class of its key.
C22_OverlayOnEveryCell ==
  \A cell \in CallCells :
    (cell.tile.handledBy = "builtin" /\ cell.variant \in {"construction", "abandoned"})
      => /\ LastOp(cell).fn = OverlayOf(cell.variant)
         /\ OverlaysIn(cell) = {Len(cell.tile.trace)}

\* A parksConstruction sheet was drawn whose cells, of shape class park,
\* carry no overlay at all.
C22_ParksConstructionBare ==
  /\ DrewSheet /\ call.kind = "parksConstruction"
  /\ CallCells # {}
  /\ \A cell \in CallCells :
       /\ cell.variant = "construction"
       /\ styleForSpriteKey(cell.spriteKey).kind = "park"
       /\ OverlaysIn(cell) = {}

(***************************************************************************)
(* C23, C24, C29: styleForSpriteKey                                        *)
(***************************************************************************)
Styled == call.op = "styleForSpriteKey"
\* The key as prefix and base key: the part before the first colon, when
\* there is one after the first character, and the rest.
KeyPrefix == splitProceduralKey(call.spriteKey).prefix
BaseKey == splitProceduralKey(call.spriteKey).key

\* The adjustment of each prefix, as documented.
Adjusted(prefix, style) ==
  CASE prefix = "dense" ->
         [style EXCEPT !.height = (@ * 125) \div 100, !.footprintX = (@ * 105) \div 100,
                       !.footprintY = (@ * 105) \div 100]
    [] prefix = "modern" ->
         [style EXCEPT !.height = (@ * 115) \div 100, !.baseColor = "#94a3b8",
                       !.roofColor = "#334155", !.accentColor = "#0f172a"]
    [] prefix = "farm" ->
         [style EXCEPT !.baseColor = "#a3e635", !.roofColor = "#4d7c0f",
                       !.accentColor = "#78350f"]
    [] prefix = "station" ->
         [style EXCEPT !.kind = "utility", !.baseColor = "#cbd5e1",
                       !.roofColor = "#64748b", !.accentColor = "#0f172a"]
    [] OTHER -> style

\* C23: the style of `p:k` is the style of the bare key k with the
\* adjustment of prefix p and nothing else changed: dense multiplies height
\* by 1.25 and both footprints by 1.05, modern sets the gray palette and
\* multiplies height by 1.15, farm sets the green/brown palette, station
\* sets shape class utility and the neutral palette, every other prefix
\* changes nothing.
C23_PrefixOnlyAdjusts ==
  (Styled /\ IsSome(KeyPrefix))
    => call.result = Adjusted(Value(KeyPrefix), styleForSpriteKey(BaseKey))

\* `dense:tree` was resolved: a tree like `tree`, a quarter higher and a
\* twentieth wider.
C23_DenseTree ==
  /\ Styled /\ call.spriteKey = "dense:tree"
  /\ call.result = [styleForSpriteKey("tree") EXCEPT
                      !.height = D(135) + D(135) \div 4,
                      !.footprintX = D(105) + D(105) \div 20,
                      !.footprintY = D(105) + D(105) \div 20]
  /\ call.result.kind = "tree"

\* The lowest height of the styles of all keys but the water keys.
OtherHeights ==
  {styleForSpriteKey(key).height :
     key \in {k \in StyleKeys : splitProceduralKey(k).key # "water"}}

\* C24 as stated: a key whose base key is `water`, prefixed or not, gets
\* shape class park, the blue base colour and a height below that of every
\* other style, whatever the prefix adjusts.
C24_WaterAlwaysBluePark ==
  (Styled /\ BaseKey = "water")
    => /\ call.result.kind = "park"
       /\ call.result.baseColor = "#3b82f6"
       /\ \A height \in OtherHeights : call.result.height < height

\* C24: the bare key `water` gets the flattened blue park-like style (shape
\* class park, base colour #3b82f6, footprint 1.9 x 1.8, height 0.25), no
\* other rule having a say; under a prefix the prefix adjustment is applied
\* to that style like to any other, so `modern:` and `farm:` recolour it
\* and `station:` makes it a gray utility; its height stays the lowest of
\* all styles under every prefix.
C24_WaterThenPrefixAdjustment ==
  (Styled /\ BaseKey = "water")
    => /\ call.result
            = (IF IsSome(KeyPrefix) THEN Adjusted(Value(KeyPrefix), WaterStyle) ELSE WaterStyle)
       /\ ~IsSome(KeyPrefix) \/ Value(KeyPrefix) \in {"dense", "park", "shop"}
            => call.result.kind = "park" /\ call.result.baseColor = "#3b82f6"
       /\ \A height \in OtherHeights : call.result.height < height

\* `station:water` was resolved: a utility in the neutral palette, not a
\* blue park tile, with the height of water.
C24_StationWater ==
  /\ Styled /\ call.spriteKey = "station:water"
  /\ call.result.kind = "utility"
  /\ call.result.baseColor = "#cbd5e1"
  /\ call.result.height = D(25)

\* The base colour of the rule that names a key by an alternative of its
\* own (a key === or key.includes test), for the keys named by one rule
\* or, as go_kart and roller_coaster, taken by the claim for the special
\* landmarks.
NamedBy ==
  << <<"mansion", "#60a5fa">>, <<"cabin", "#60a5fa">>, <<"residential", "#3b82f6">>,
     <<"commercial", "#f59e0b">>, <<"mall", "#f59e0b">>, <<"factory_small", "#9ca3af">>,
     <<"warehouse", "#9ca3af">>, <<"industrial", "#94a3b8">>, <<"police_station", "#a5b4fc">>,
     <<"fire_station", "#fb7185">>, <<"hospital", "#f1f5f9">>, <<"school", "#fde68a">>,
     <<"university", "#c4b5fd">>, <<"tree", "#16a34a">>, <<"community_garden", "#22c55e">>,
     <<"power_plant", "#a3a3a3">>, <<"water_tower", "#93c5fd">>,
     <<"subway_station", "#cbd5e1">>, <<"rail_station", "#cbd5e1">>,
     <<"stadium", "#e5e7eb">>, <<"museum", "#fef3c7">>, <<"amphitheater", "#fef3c7">>,
     <<"airport", "#e2e8f0">>, <<"space_program", "#d1d5db">>, <<"city_hall", "#e0e7ff">>,
     <<"park_gate", "#e0e7ff">>, <<"amusement_park", "#fca5a5">>,
     <<"go_kart_track", "#fca5a5">>, <<"roller_coaster_small", "#fca5a5">> >>
Unnamed == {"", "kiosk", "silo", "rail", "waterfall"}

\* C29: a bare key named by a rule gets the style of that rule (warehouse
\* the industrial one, park_gate, go_kart and roller_coaster keys a special
\* landmark one), and a key no rule matches gets the default style.
C29_NamedKeyGetsItsRule ==
  (Styled /\ ~IsSome(KeyPrefix))
    => /\ \A i \in 1..Len(NamedBy) :
            call.spriteKey = NamedBy[i][1] => call.result.baseColor = NamedBy[i][2]
       /\ call.spriteKey \in Unnamed => call.result = DefaultStyle

\* `warehouse` was resolved: the residential rule took it for its `house`,
\* and it is a blue house, not a gray industrial building.
C29_WarehouseIsAHouse ==
  /\ Styled /\ call.spriteKey = "warehouse"
  /\ call.result = styleForSpriteKey("house_small")
  /\ call.result.baseColor # "#9ca3af"


(***************************************************************************)
(* C25: the sources of a derived pack                                      *)
(***************************************************************************)
Derived == call.op = "registerProceduralSpritePack"

\* The cell map the sheet of a kind is laid out by.
CellMapOf(pack, kind) ==
  CASE kind = "dense" -> pack.denseVariants
    [] kind = "modern" -> pack.modernVariants
    [] kind \in {"parks", "parksConstruction"} -> pack.parksBuildings
    [] kind = "farms" -> pack.farmsVariants
    [] kind = "shops" -> pack.shopsVariants
    [] kind = "stations" -> pack.stationsVariants
    [] OTHER -> None

\* The kinds whose key the derivation synthesizes.
Synthesized(base) == GridKinds \cup {kind \in CellMapKinds : IsSome(CellMapOf(base, kind))}

CacheKey(id, kind) == Some("procedural:" \o id \o ":" \o kind)

\* C25: a pack derived with id I has the grid sources procedural:I:main,
\* procedural:I:construction and procedural:I:abandoned; the source of a
\* cell-mapped kind is procedural:I:<kind> exactly when the base pack has the
\* kind's cell map and the base pack's source otherwise; and the key
\* synthesized for a kind equals the key another derivation of the same base
\* synthesizes for a kind only when the ids and the kinds are the same.
C25_DerivedSources ==
  Derived =>
    \A kind \in Kinds :
      /\ getSpriteSheetSrc(call.pack, kind) =
           IF kind \in Synthesized(call.base) THEN CacheKey(call.opts.id, kind)
           ELSE getSpriteSheetSrc(call.base, kind)
      /\ \A id \in DerivedPackIds, other \in Synthesized(call.base) :
           ( /\ kind \in Synthesized(call.base)
             /\ getSpriteSheetSrc(call.pack, kind) =
                  getSpriteSheetSrc(
                    createProceduralSpritePackFromBase(call.base, [call.opts EXCEPT !.id = id]),
                    other) )
           => (id = call.opts.id /\ other = kind)

\* A pack derived from a base with a stations cell map and a dense source
\* but no dense cell map, now in the list.
C25_DerivedFromPartlyMapped ==
  /\ Derived
  /\ IsSome(call.base.stationsVariants)
  /\ ~IsSome(call.base.denseVariants) /\ IsSome(call.base.denseSrc)
  /\ \E i \in 1..Len(SPRITE_PACKS) : SPRITE_PACKS[i] = call.pack

(***************************************************************************)
(* C26: ids in the pack list                                               *)
(***************************************************************************)
PackOp == call.op \in {"registerSpritePack", "registerProceduralSpritePack"}

Present(packs, id) == \E i \in 1..Len(packs) : packs[i].id = id

\* C26: the list never holds two packs of one id; registering an id that is
\* present leaves the list as it was unless replace is true, and then puts
\* the pack in the place of the old one, the length and every other
\* position unchanged.
C26_UniqueIdsReplaceInPlace ==
  /\ \A i, j \in 1..Len(SPRITE_PACKS) : SPRITE_PACKS[i].id = SPRITE_PACKS[j].id => i = j
  /\ (PackOp /\ Present(call.before, call.pack.id)) =>
       IF call.replace = Some(TRUE)
       THEN /\ Len(SPRITE_PACKS) = Len(call.before)
            /\ \A i \in 1..Len(call.before) :
                 SPRITE_PACKS[i] = IF call.before[i].id = call.pack.id THEN call.pack
                                   ELSE call.before[i]
       ELSE SPRITE_PACKS = call.before

\* A pack replaced at the first of several positions by a different pack of
\* its id.
C26_ReplacedInPlace ==
  /\ PackOp /\ call.replace = Some(TRUE)
  /\ Len(call.before) >= 2
  /\ call.before[1].id = call.pack.id
  /\ call.before[1] # call.pack
  /\ SPRITE_PACKS[1] = call.pack


(***************************************************************************)
(* C27: the cells of a cell-mapped sheet                                   *)
(***************************************************************************)
IsParks(kind) == kind \in {"parks", "parksConstruction"}

\* The (type, position) pairs of the cell map of a kind, each with the index
\* of the position in its type's list; parksBuildings has one position per
\* type and no list.
Pairs(pack, kind) ==
  LET map == Value(CellMapOf(pack, kind))
  IN IF IsParks(kind)
     THEN {[type |-> map[e][1], pos |-> map[e][2], index |-> 0] : e \in 1..Len(map)}
     ELSE UNION {{[type |-> map[e][1], pos |-> map[e][2][i], index |-> i - 1]
                    : i \in 1..Len(map[e][2])} : e \in 1..Len(map)}

PairOnGrid(pair, pack, kind) ==
  /\ 0 <= pair.pos.col /\ pair.pos.col < KindCols(pack, kind)
  /\ 0 <= pair.pos.row /\ pair.pos.row < KindRows(pack, kind)

\* The cells of the sheet drawn for a pair with a given salt.
CellsOf(pair, salt) ==
  {n \in 1..Len(call.result.sheet.cells) :
     /\ call.result.sheet.cells[n].col = pair.pos.col
     /\ call.result.sheet.cells[n].row = pair.pos.row
     /\ call.result.sheet.cells[n].spriteKey = KindPrefix(call.kind) \o ":" \o pair.type
     /\ call.result.sheet.cells[n].salt = salt}

DrewCellMap == DrewSheet /\ call.kind \in CellMapKinds

DistinctSeedStrings ==
  \A m, n \in 1..Len(call.result.sheet.cells) :
    m # n => call.result.sheet.cells[m].seedString # call.result.sheet.cells[n].seedString

\* C27 as stated: the sheet of a cell-mapped kind has exactly one cell per
\* (type, position) pair of the map, keyed `<kindPrefix>:<type>` and salted
\* with the index of the position in the type's list, and no two cells of
\* the sheet are seeded from the same string.
C27_OneSaltedCellPerPair ==
  DrewCellMap =>
    /\ \A pair \in Pairs(call.pack, call.kind) :
         Cardinality(CellsOf(pair, Some(NumToString(pair.index)))) = 1
    /\ Len(call.result.sheet.cells) = Cardinality(Pairs(call.pack, call.kind))
    /\ DistinctSeedStrings

\* C27: the sheet of a cell-mapped kind has exactly one cell per (type,
\* position) pair of the map whose position is on the grid and none for the
\* others; the cell is keyed `<kindPrefix>:<type>`; on the dense, modern,
\* farms, shops and stations sheets its salt is the index of the position in
\* the type's list, on the parks sheets it has no salt; and no two cells of
\* the sheet are seeded from the same string.
C27_OneCellPerPairOnGrid ==
  DrewCellMap =>
    /\ \A pair \in Pairs(call.pack, call.kind) :
         Cardinality(CellsOf(pair, IF IsParks(call.kind) THEN None
                                   ELSE Some(NumToString(pair.index))))
           = (IF PairOnGrid(pair, call.pack, call.kind) THEN 1 ELSE 0)
    /\ Len(call.result.sheet.cells)
         = Cardinality({pair \in Pairs(call.pack, call.kind) :
                          PairOnGrid(pair, call.pack, call.kind)})
    /\ DistinctSeedStrings

\* A sheet with two cells of one type, salted 0 and 1.
C27_TwoCellsOfOneType ==
  /\ DrewCellMap
  /\ \E m, n \in 1..Len(call.result.sheet.cells) :
       /\ call.result.sheet.cells[m].spriteKey = call.result.sheet.cells[n].spriteKey
       /\ call.result.sheet.cells[m].salt = Some("0")
       /\ call.result.sheet.cells[n].salt = Some("1")


(***************************************************************************)
(* C28: what a renderer is called with                                     *)
(***************************************************************************)
\* The cells of the last sheet whose renderer was called.
Rendered == {cell \in CallCells : cell.tile.args # <<>>}

CellArgs(cell) ==
  /\ cell.tile.args[1].spriteKey = cell.spriteKey
  /\ Some(cell.tile.args[1].prefix) = splitProceduralKey(cell.spriteKey).prefix
  /\ cell.tile.args[1].key = splitProceduralKey(cell.spriteKey).key
  /\ cell.tile.args[1].variant = cell.variant
  /\ cell.tile.args[1].x = cell.tile.trace[1].x /\ cell.tile.args[1].y = cell.tile.trace[1].y
  /\ cell.tile.args[1].w = cell.tile.trace[1].w /\ cell.tile.args[1].h = cell.tile.trace[1].h
  /\ cell.tile.args[1].rng = cell.rngSeed

\* C28 as stated: every renderer called while a sheet is generated is given
\* the pack generating the sheet and the sheet kind, with the sprite key, its
\* prefix and base key, the variant, the cell rectangle and the cell's RNG.
C28_RendererGivenPackAndKind ==
  \A cell \in Rendered :
    /\ cell.tile.args[1].pack = Some(call.pack)
    /\ cell.tile.args[1].sheetKind = Some(call.kind)
    /\ CellArgs(cell)

\* A renderer was called for a cell with the key, the variant, the
\* rectangle and the RNG of the cell, and with neither pack nor sheet kind.
C28_CalledWithoutPack ==
  \E cell \in Rendered :
    /\ cell.tile.args[1].pack = None
    /\ cell.tile.args[1].sheetKind = None
    /\ CellArgs(cell)


(***************************************************************************)
(* C30: lookups by pack, and what each registry operation leaves alone     *)
(***************************************************************************)
Tables == {"prefix", "sprite"}
TableKeys(table) == IF table = "prefix" THEN Prefixes ELSE SpriteKeys

Lookup(table, key, packId) ==
  IF table = "prefix" THEN getProceduralPrefixRenderer(key, packId)
  ELSE getProceduralSpriteRenderer(key, packId)

\* The entry of pack packId's own table for a key, undefined when absent.
PackEntry(table, packId, key) ==
  ScopedGet(IF table = "prefix" THEN prefixRenderersByPack ELSE spriteKeyRenderersByPack,
            packId, key)

\* A lookup for a pack returns the renderer registered for the pack under
\* the key, else the one registered globally; a lookup without pack id the
\* one registered globally.
LookupByPackThenGlobal ==
  \A table \in Tables : \A key \in TableKeys(table) :
    /\ Lookup(table, key, None) = Registered(table, "", key)
    /\ \A packId \in RegistryPackIds :
         Lookup(table, key, Some(packId)) =
           IF Registered(table, packId, key) # Undef THEN Registered(table, packId, key)
           ELSE Registered(table, "", key)

\* The registrations a step added, removed or replaced.
Touched == (registered' \ registered) \cup (registered \ registered')

\* A step of an operation scoped to packId, or global for "".
ScopedTo(packId) == Touched # {} /\ \A e \in Touched : e[2] = packId

Reads == call' # call /\ call'.op \in {"getProceduralPrefixRenderer",
                                       "getProceduralSpriteRenderer", "list"}

FrameStep ==
  /\ \A packId \in RegistryPackIds :
       ScopedTo(packId) =>
         \A table \in Tables : \A key \in TableKeys(table) :
           /\ Lookup(table, key, None)' = Lookup(table, key, None)
           /\ \A other \in RegistryPackIds \ {packId} :
                Lookup(table, key, Some(other))' = Lookup(table, key, Some(other))
  /\ ScopedTo("") =>
       \A table \in Tables : \A key \in TableKeys(table) : \A packId \in RegistryPackIds :
         PackEntry(table, packId, key)' = PackEntry(table, packId, key)
  /\ Reads => UNCHANGED registry

\* C30: after any sequence of registry operations a lookup with pack id P
\* returns P's renderer for the key when there is one and the global one
\* otherwise; an operation scoped to P changes no lookup for another pack
\* and no lookup without pack id; a global unregister or clear removes no
\* pack-scoped entry; lookups and lists change no table.
C30_LookupsScopedAndFramed == [](LookupByPackThenGlobal) /\ [][FrameStep]_vars

\* One key with a renderer of its own for one pack and another registered
\* globally: the pack's lookup returns its own, the other pack's and the
\* lookup without pack id the global one, and the lookup just made returned
\* the pack's.
C30_PackOverGlobal ==
  \E table \in Tables : \E key \in TableKeys(table) :
    /\ Registered(table, "procedural-user", key) = PaintRenderer
    /\ Registered(table, "", key) = DeclineRenderer
    /\ Lookup(table, key, Some("procedural-user")) = PaintRenderer
    /\ Lookup(table, key, Some("procedural-basic")) = DeclineRenderer
    /\ Lookup(table, key, None) = DeclineRenderer
    /\ call.op \in {"getProceduralPrefixRenderer", "getProceduralSpriteRenderer"}
    /\ call.key = key /\ call.packId = Some("procedural-user")
    /\ call.result = PaintRenderer

====
